---- MODULE Spec2Model ----
(***************************************************************************)
(* sql-tap: the N+1 detector (detect.Detector) and the fan-out broker      *)
(* (broker.Broker) with its consumers (server.Watch, web.handleSSE) and    *)
(* its single producer (the event loop of sql-tapd's run).                 *)
(*                                                                         *)
(* Times and durations are natural numbers (ticks).  A Go map is a         *)
(* function whose DOMAIN is the set of keys present; a nil *Alert is the   *)
(* empty sequence and a non-nil one a one-element sequence.                *)
(***************************************************************************)
EXTENDS Integers, Sequences, FiniteSets, TLC

\* ------------------------------------------------------------------ bounds

\* Largest call time handed to Record.
MaxTime == 3
\* Number of non-empty Record calls explored on one detector.
MaxCalls == 4
\* Largest threshold handed to detect.New.
MaxThreshold == 2

\* Capacity of a subscriber's queue (broker.New(256) in sql-tapd, scaled down).
BufSize == 2
\* Number of events the producer publishes.
MaxEvents == 4

Times == 0..MaxTime
\* Query templates handed to Record; "" is the empty query.
Templates == {"", "q1", "q2"}
RealTemplates == Templates \ {""}
Thresholds == 1..MaxThreshold
Windows == {1, 2}
Cooldowns == {0, 2}
\* The consumers (one per Watch call or SSE request) that may subscribe.
Subscribers == {"s1", "s2"}

VARIABLES
    det,        \* the Detector under test
    res,        \* the Result of the last Record call on det
    call,       \* <<>> or <<query>>: the query of the last Record call (its time
                \* is the last entry of hist[query])
    detAlt,     \* a Detector with another cooldown, fed the same calls
    resAlt,     \* its last Result
    detSolo,    \* per template, a Detector fed only that template's calls
    resSolo,    \* per template, the last Result of its solo Detector
    hist,       \* per template, every time recorded for it, in call order
    alertLog,   \* per template, the times of the calls that carried an alert
    subs,       \* Broker: the set of registered subscribers
    queue,      \* per subscriber, the events buffered in its stream, oldest first
    closed,     \* per subscriber, whether its stream has been closed
    mu,         \* Broker: "free", or "publish" while Publish iterates
    panicked,   \* a goroutine of the process panicked
    pubPc,      \* producer: "recv", "lock" (Publish called), "send" (iterating)
    pubEv,      \* producer: the number of the event last taken from p.Events()
    pubTodo,    \* producer: the subscribers Publish has still to visit
    pc,         \* per consumer: "start", "loop", "return", "done"
    received,   \* per consumer, the events it has been handed and sent on
    joined,     \* per subscriber, the number of Publish iterations begun before
                \* it subscribed
    left,       \* per subscriber, that number when its unsubscribe returned
    dropped,    \* per subscriber, the events Publish dropped on its full queue
    runDet,     \* run: <<>> when det is nil, else <<the Detector>>
    runFlags,   \* run: the flags nplus1Threshold, nplus1Window, nplus1Cooldown,
                \* slowThreshold
    runEv,      \* run: <<>> or <<the event last handed to b.Publish>>
    runCount,   \* run: the number of events taken from p.Events()
    runHist,    \* per Normalize output, the StartTimes of the SELECT events
                \* (Op Query, Exec or Execute) published so far, in order
    driver,     \* sql-tapd's -driver: "postgres" or "mysql"
    nextID,     \* conn.nextID
    activeTxID, \* conn.activeTxID: <<>> for "", <<k>> for the k-th UUID generated
    uuidCount,  \* the number of UUIDs generated so far
    preparedStmts, \* conn.preparedStmts
    events,     \* the proxy's events channel: the events buffered, oldest first
    lastEmit,   \* <<>> or <<the last emitEvent call>>: the event, whether the
                \* channel took it, the request that created it, and whether
                \* the terminator of that request's response had been observed
    emitCount,  \* the number of emitEvent calls so far
    emittedIDs, \* the IDs (as numbers) of the events emitEvent was called with
    reqCount,   \* the number of client messages captured so far
    srvQueue,   \* postgres: the requests forwarded upstream and not yet answered
    lastReply,  \* <<>> or <<the last response terminator observed>>: its request,
                \* the request's command, and what it says
    lastCreated,   \* <<>> or <<the event last created>>, as created
    openTx,     \* the TxID of the last Begin event not yet followed by a Commit
                \* or Rollback event, <<>> if none
    usedTx,     \* the TxIDs the events created so far carried
    lastParse,  \* postgres conn.lastParse
    lastBindArgs,  \* postgres conn.lastBindArgs
    lastBindStmt,  \* postgres conn.lastBindStmt
    srvUnnamed, \* upstream: <<>> or <<the text of its unnamed statement>>
    srvPortal,  \* upstream: <<>> or <<the unnamed statement as last bound>>
    srvExecuted, \* upstream: <<>> or <<the bound statement last executed>>
    myState,    \* mysql conn.state: "Idle", "FirstResp", "ColumnDefs", "RowData",
                \* "SkipPrepare"
    lastCommand,   \* mysql conn.lastCommand
    lastQuery,  \* mysql conn.lastQuery
    lastStmtID, \* mysql conn.lastStmtID
    skipPackets,   \* mysql conn.skipPackets
    pending,    \* mysql conn.pending: <<>> for nil, else <<the event>>
    pendingReq, \* the number of the request that created the pending event
    srvOut,     \* the packets upstream has still to send, in order
    srvStmts,   \* upstream: the statements prepared, by statement id
    cliStmts,   \* client: the statement ids it was given and has not closed
    overlap,    \* the requests sent or answered while another was outstanding
    nzSkel,     \* the statement under Normalize: characters and literal slots
    nzIn,       \* <<>> or <<sql>>: the string Normalize was called on
    nzOut,      \* <<>> or <<Normalize(sql)>>
    nzAgain,    \* <<>> or <<Normalize(Normalize(sql))>>
    nzOther,    \* <<>> or <<a string that differs from sql in literal values only>>
    nzOtherOut, \* <<>> or <<Normalize of that string>>
    hsPc,       \* MySQL relayStartup: where it stands
    hsGreeting, \* <<>> or <<the greeting packet read from upstream>>
    hsResponse, \* <<>> or <<the handshake response packet read from the client>>
    hsToClient, \* the packets relayStartup wrote to the client, in order
    hsToUpstream, \* the packets relayStartup wrote upstream, in order
    hsRounds,   \* the authentication packets relayed that did not end the startup
    suPc,       \* PostgreSQL relayStartup: where it stands
    suFromClient, \* the startup messages it read from the client, in order
    suFromUpstream, \* the messages it read from upstream, in order
    suToClient, \* what it wrote to the client, in order
    suToUpstream, \* what it wrote upstream, in order
    suRounds,   \* the messages it handled that did not end the startup
    ctxDone,    \* whether the process-wide context is cancelled
    listener,   \* the listener of the proxy: "open" or "stopped"
    rlPc,       \* per connection, where relay stands
    rlLoop,     \* per connection and direction, where the relay loop stands
    rlClosed,   \* per connection, whether its two sockets are closed on this side
    rlEOF,      \* per connection and peer, whether the peer has closed its end
    rlInbox,    \* per connection and peer, the packets sent and not yet read
    rlSent,     \* per connection, the packets and closes its peers have sent
    rlErrCh,    \* per connection, the results waiting in errCh
    rlQuiet,    \* per connection, whether the context was cancelled with both
                \* loops waiting in a read and its peers have been silent since
    tkPc,       \* per relay task of a MySQL connection: "read", "capture" or "write"
    tkTodo,     \* per relay task, the accesses its capture call has still to make
    tkPkt,      \* the packet the upstream->client task is capturing
    tkMu,       \* conn.mu: "free" or the task that holds it
    tkState,    \* conn.state as the tasks read and write it
    tkCommand,  \* conn.lastCommand as the tasks read and write it
    tkSkip,     \* conn.skipPackets as the upstream->client task keeps it
    tkRead      \* per relay task, the packets it has read

dvars == <<det, res, call, detAlt, resAlt, detSolo, resSolo, hist, alertLog>>
bvars == <<subs, queue, closed, mu, panicked, pubPc, pubEv, pubTodo, pc, received,
           joined, left, dropped>>
ovars == <<runDet, runFlags, runEv, runCount, runHist>>
\* The variables of the components other than the detector and the broker.
cvars == <<driver, nextID, activeTxID, uuidCount, preparedStmts, events, lastEmit,
           emitCount, emittedIDs, reqCount, srvQueue, lastReply, lastCreated, openTx, usedTx>>
pgvars == <<lastParse, lastBindArgs, lastBindStmt, srvUnnamed, srvPortal, srvExecuted>>
myvars == <<myState, lastCommand, lastQuery, lastStmtID, skipPackets, pending, pendingReq,
            srvOut, srvStmts, cliStmts, overlap>>
nvars == <<nzSkel, nzIn, nzOut, nzAgain, nzOther, nzOtherOut>>
hvars == <<hsPc, hsGreeting, hsResponse, hsToClient, hsToUpstream, hsRounds>>
\* The variables of connection startup and shutdown.
svars == <<suPc, suFromClient, suFromUpstream, suToClient, suToUpstream, suRounds>>
rvars == <<ctxDone, listener, rlPc, rlLoop, rlClosed, rlEOF, rlInbox, rlSent, rlErrCh, rlQuiet>>
wvars == <<hvars, svars, rvars>>
tvars == <<tkPc, tkTodo, tkPkt, tkMu, tkState, tkCommand, tkSkip, tkRead>>
\* The variables of the normalizer and of connection startup and shutdown.
yvars == <<nvars, wvars, tvars>>
xvars == <<ovars, cvars, pgvars, myvars, yvars>>
\* The variables of the detector, the broker, run and the interceptors.
zvars == <<dvars, bvars, ovars, cvars, pgvars, myvars, tvars>>
vars == <<dvars, bvars, xvars>>

\* run has not started: no detector, nothing published.
RunIdle ==
    /\ runDet = <<>>
    /\ runFlags = [nplus1Threshold |-> 0, nplus1Window |-> 1, nplus1Cooldown |-> 0,
                   slowThreshold |-> 0]
    /\ runEv = <<>>
    /\ runCount = 0
    /\ runHist = <<>>

\* mysql newConn: the MySQL fields of a connection that has captured nothing.
MyIdle ==
    /\ myState = "Idle"
    /\ lastCommand = 0
    /\ lastQuery = ""
    /\ lastStmtID = 0
    /\ skipPackets = 0
    /\ pending = <<>>
    /\ pendingReq = 0
    /\ srvOut = <<>>
    /\ srvStmts = <<>>
    /\ cliStmts = {}
    /\ overlap = {}

\* The connections of the proxy and the two peers and relay directions of each.
Conns == {"c1", "c2"}
Peers == {"client", "upstream"}
Dirs == {"clientToUpstream", "upstreamToClient"}

\* The two relay tasks of a connection wait for their first packet.
TkInit ==
    /\ tkPc = [d \in Dirs |-> "read"]
    /\ tkTodo = [d \in Dirs |-> <<>>]
    /\ tkPkt = [kind |-> "OK", skip |-> 0]
    /\ tkMu = "free"
    /\ tkState = "Idle"
    /\ tkCommand = 0
    /\ tkSkip = 0
    /\ tkRead = [d \in Dirs |-> 0]

\* newConn of the proxy of driver d: a connection that has captured nothing.
NewConn(d) ==
    /\ MyIdle
    /\ TkInit
    /\ driver = d
    /\ nextID = 0
    /\ activeTxID = <<>>
    /\ uuidCount = 0
    /\ preparedStmts = <<>>
    /\ events = <<>>
    /\ lastEmit = <<>>
    /\ emitCount = 0
    /\ emittedIDs = {}
    /\ reqCount = 0
    /\ srvQueue = <<>>
    /\ lastReply = <<>>
    /\ lastCreated = <<>>
    /\ openTx = <<>>
    /\ usedTx = {}
    /\ lastParse = ""
    /\ lastBindArgs = <<>>
    /\ lastBindStmt = ""
    /\ srvUnnamed = <<>>
    /\ srvPortal = <<>>
    /\ srvExecuted = <<>>

\* No connection is in use (an idle PostgreSQL one stands for it).
ConnIdle == NewConn("postgres")

\* Normalize has not been called.
NormIdle ==
    /\ nzSkel = <<>>
    /\ nzIn = <<>>
    /\ nzOut = <<>>
    /\ nzAgain = <<>>
    /\ nzOther = <<>>
    /\ nzOtherOut = <<>>

\* The normalizer, connection startup and shutdown are idle.
\* No MySQL connection is starting up.
HsIdle ==
    /\ hsPc = "idle"
    /\ hsGreeting = <<>>
    /\ hsResponse = <<>>
    /\ hsToClient = <<>>
    /\ hsToUpstream = <<>>
    /\ hsRounds = 0

\* No PostgreSQL connection is starting up.
SuIdle ==
    /\ suPc = "idle"
    /\ suFromClient = <<>>
    /\ suFromUpstream = <<>>
    /\ suToClient = <<>>
    /\ suToUpstream = <<>>
    /\ suRounds = 0

\* No listener runs.
RlIdle ==
    /\ ctxDone = FALSE
    /\ listener = "none"
    /\ rlPc = [c \in Conns |-> "none"]
    /\ rlLoop = [c \in Conns |-> [d \in Dirs |-> "off"]]
    /\ rlClosed = [c \in Conns |-> FALSE]
    /\ rlEOF = [c \in Conns |-> [p \in Peers |-> FALSE]]
    /\ rlInbox = [c \in Conns |-> [p \in Peers |-> 0]]
    /\ rlSent = [c \in Conns |-> 0]
    /\ rlErrCh = [c \in Conns |-> 0]
    /\ rlQuiet = [c \in Conns |-> FALSE]

WIdle == HsIdle /\ SuIdle /\ RlIdle

YIdle == NormIdle /\ WIdle

\* The components other than the detector and the broker are idle.
XIdle == RunIdle /\ ConnIdle /\ YIdle

\* ---------------------------------------------------------------- detector

\* m[k] of a Go map of slices: the zero value (nil slice) when k is absent.
MapGet(m, k) == IF k \in DOMAIN m THEN m[k] ELSE <<>>

\* m[k] = v of a Go map.
MapPut(m, k, v) == [x \in (DOMAIN m) \cup {k} |-> IF x = k THEN v ELSE m[x]]

\* A map with no keys.
EmptyMap == [x \in {} |-> <<>>]

\* detect.New
New(threshold, window, cooldown) ==
    [threshold |-> threshold, window |-> window, cooldown |-> cooldown,
     queries |-> EmptyMap, lastAlert |-> EmptyMap]

\* Result{}
ZeroResult == [Matched |-> FALSE, Alert |-> <<>>]

\* The eviction loop without its increment: nothing is ever evicted.
EvictStartKeepsAll(times, start, cutoff) == start

\* The eviction loop of Record: the first index (1-based) from start on whose
\* time is not Before(cutoff), or Len(times) + 1.
RECURSIVE EvictStart(_, _, _)
EvictStart(times, start, cutoff) ==
    IF start <= Len(times) /\ times[start] < cutoff
    THEN EvictStart(times, start + 1, cutoff)
    ELSE start

\* times = append(times[start:], t)
Evicted(times, cutoff, t) ==
    Append(SubSeq(times, EvictStart(times, 1, cutoff), Len(times)), t)

\* The cooldown test with > for >=.
CooldownOverStrict(d, query, t) ==
    \/ query \notin DOMAIN d.lastAlert
    \/ t - d.lastAlert[query] > d.cooldown

\* The cooldown test of Record: !ok || t.Sub(last) >= d.cooldown
CooldownOver(d, query, t) ==
    \/ query \notin DOMAIN d.lastAlert
    \/ t - d.lastAlert[query] >= d.cooldown

\* The threshold test with <= for <.
BelowThresholdOffByOne(d, times) == Len(times) <= d.threshold

\* The threshold test of Record: len(times) < d.threshold
BelowThreshold(d, times) == Len(times) < d.threshold

\* One last-alert time shared by every template instead of one per template.
SetLastAlertShared(d, query, t) ==
    [d EXCEPT !.lastAlert = [x \in RealTemplates |-> t]]

\* d.lastAlert[query] = t
SetLastAlert(d, query, t) == [d EXCEPT !.lastAlert = MapPut(d.lastAlert, query, t)]

\* Matched set only on the call that carries the alert.
MatchedOnlyWithAlert(alert) == [Matched |-> alert # <<>>, Alert |-> alert]

\* res := Result{Matched: true}, with res.Alert as given.
MatchedResult(alert) == [Matched |-> TRUE, Alert |-> alert]

\* Record without the early return on an empty query.
RecordWithoutEmptyCheck(d, query, t) ==
    LET cutoff == t - d.window
        times == Evicted(MapGet(d.queries, query), cutoff, t)
        d1 == [d EXCEPT !.queries = MapPut(d.queries, query, times)]
    IN  IF BelowThreshold(d1, times) THEN [d |-> d1, res |-> ZeroResult]
        ELSE IF CooldownOver(d1, query, t)
             THEN [d |-> SetLastAlert(d1, query, t),
                   res |-> MatchedResult(<<[Query |-> query, Count |-> Len(times)]>>)]
             ELSE [d |-> d1, res |-> MatchedResult(<<>>)]

\* Detector.Record: the detector after the call and the Result returned.
Record(d, query, t) ==
    IF query = ""
    THEN [d |-> d, res |-> ZeroResult]
    ELSE LET cutoff == t - d.window
             times == Evicted(MapGet(d.queries, query), cutoff, t)
             d1 == [d EXCEPT !.queries = MapPut(d.queries, query, times)]
         IN  IF BelowThreshold(d1, times)
             THEN [d |-> d1, res |-> ZeroResult]
             ELSE IF CooldownOver(d1, query, t)
                  THEN [d |-> SetLastAlert(d1, query, t),
                        res |-> MatchedResult(<<[Query |-> query, Count |-> Len(times)]>>)]
                  ELSE [d |-> d1, res |-> MatchedResult(<<>>)]


\* ------------------------------------------------------------------ broker

\* broker.New: no subscribers, the mutex free.
BrokerNew ==
    /\ subs = {}
    /\ queue = [s \in Subscribers |-> <<>>]
    /\ closed = [s \in Subscribers |-> FALSE]
    /\ mu = "free"
    /\ panicked = FALSE

\* Broker.Subscribe, under the mutex: a fresh empty queue, registered.
Subscribe(s) ==
    /\ mu = "free"
    /\ subs' = subs \cup {s}
    /\ queue' = [queue EXCEPT ![s] = <<>>]
    /\ closed' = [closed EXCEPT ![s] = FALSE]
    /\ UNCHANGED <<mu, panicked>>

\* The unsubscribe callback run without taking the mutex.
UnsubscribeUnlocked(s) ==
    /\ subs' = subs \ {s}
    /\ closed' = [closed EXCEPT ![s] = TRUE]
    /\ UNCHANGED <<queue, mu, panicked>>

\* The unsubscribe callback, under the mutex: the subscriber is removed and its
\* stream closed.
Unsubscribe(s) ==
    /\ mu = "free"
    /\ subs' = subs \ {s}
    /\ closed' = [closed EXCEPT ![s] = TRUE]
    /\ UNCHANGED <<queue, mu, panicked>>

\* A blocking send: Publish waits for room in the subscriber's queue.
EnqueueBlocking(s, ev) ==
    /\ Len(queue[s]) < BufSize
    /\ queue' = [queue EXCEPT ![s] = Append(@, ev)]
    /\ UNCHANGED <<dropped, panicked>>

\* A send that puts the event at the head of the queue.
EnqueueAtHead(s, ev) ==
    /\ IF Len(queue[s]) < BufSize
       THEN queue' = [queue EXCEPT ![s] = <<ev>> \o @] /\ UNCHANGED dropped
       ELSE dropped' = [dropped EXCEPT ![s] = @ \cup {ev}] /\ UNCHANGED queue
    /\ UNCHANGED panicked

\* The non-blocking send of Publish to one subscriber: enqueue, or drop the
\* event for this subscriber when its queue is full.  (A send on a closed
\* stream panics.)
Enqueue(s, ev) ==
    IF closed[s]
    THEN panicked' = TRUE /\ UNCHANGED <<queue, dropped>>
    ELSE /\ IF Len(queue[s]) < BufSize
            THEN queue' = [queue EXCEPT ![s] = Append(@, ev)] /\ UNCHANGED dropped
            ELSE dropped' = [dropped EXCEPT ![s] = @ \cup {ev}] /\ UNCHANGED queue
         /\ UNCHANGED panicked

\* Publish stops at the first subscriber whose queue is full.
ContinueStopsWhenFull(s) == IF Len(queue[s]) < BufSize THEN pubTodo \ {s} ELSE {}

\* The subscribers left to visit once s has been visited.
Continue(s) == pubTodo \ {s}

\* ------------------------------------------------ producer: the run loop

\* for ev := range p.Events(): the next event is taken and Publish is called.
RunRecv ==
    /\ pubPc = "recv"
    /\ pubEv < MaxEvents
    /\ pubEv' = pubEv + 1
    /\ pubPc' = "lock"
    /\ UNCHANGED <<dvars, xvars, subs, queue, closed, mu, panicked, pubTodo, pc, received,
                   joined, left, dropped>>

\* Publish takes the mutex and starts iterating over the subscribers.
PublishLock ==
    /\ pubPc = "lock"
    /\ mu = "free"
    /\ mu' = "publish"
    /\ pubTodo' = subs
    /\ pubPc' = "send"
    /\ UNCHANGED <<dvars, xvars, subs, queue, closed, panicked, pubEv, pc, received, joined,
                   left, dropped>>

\* Publish visits one subscriber.
PublishSend(s) ==
    /\ pubPc = "send"
    /\ ~panicked
    /\ s \in pubTodo
    /\ Enqueue(s, pubEv)
    /\ pubTodo' = Continue(s)
    /\ UNCHANGED <<dvars, xvars, subs, closed, mu, pubPc, pubEv, pc, received, joined, left>>

\* Publish has visited every subscriber, releases the mutex and returns.
PublishUnlock ==
    /\ pubPc = "send"
    /\ ~panicked
    /\ pubTodo = {}
    /\ mu' = "free"
    /\ pubPc' = "recv"
    /\ UNCHANGED <<dvars, xvars, subs, queue, closed, panicked, pubEv, pubTodo, pc, received,
                   joined, left, dropped>>

\* The number of Publish calls that have begun iterating.
Started == IF pubPc = "lock" THEN pubEv - 1 ELSE pubEv

\* The number of Publish calls that have returned.
Published == IF pubPc = "recv" THEN pubEv ELSE pubEv - 1

\* ------------------------------------ consumers: Watch and handleSSE

\* ch, unsub := s.broker.Subscribe()
WatchSubscribe(s) ==
    /\ pc[s] = "start"
    /\ Subscribe(s)
    /\ pc' = [pc EXCEPT ![s] = "loop"]
    /\ joined' = [joined EXCEPT ![s] = Started]
    /\ UNCHANGED <<dvars, xvars, pubPc, pubEv, pubTodo, received, left, dropped>>

\* case ev, ok := <-ch: the stream is closed and drained (return), or an event
\* is taken and sent on to the client; the loop goes on when the send worked.
WatchRecv(s, sendOk) ==
    /\ pc[s] = "loop"
    /\ queue[s] # <<>> \/ closed[s]
    /\ IF queue[s] = <<>>
       THEN /\ pc' = [pc EXCEPT ![s] = "return"]
            /\ UNCHANGED <<dvars, xvars, queue, received>>
       ELSE /\ queue' = [queue EXCEPT ![s] = Tail(@)]
            /\ IF sendOk
               THEN /\ received' = [received EXCEPT ![s] = Append(@, Head(queue[s]))]
                    /\ UNCHANGED pc
               ELSE /\ pc' = [pc EXCEPT ![s] = "return"]
                    /\ UNCHANGED received
    /\ UNCHANGED <<dvars, xvars, subs, closed, mu, panicked, pubPc, pubEv, pubTodo, joined, left,
                   dropped>>

\* case <-ctx.Done(): the client went away.
WatchCtxDone(s) ==
    /\ pc[s] = "loop"
    /\ pc' = [pc EXCEPT ![s] = "return"]
    /\ UNCHANGED <<dvars, xvars, subs, queue, closed, mu, panicked, pubPc, pubEv, pubTodo,
                   received, joined, left, dropped>>

\* The handler returns without running the unsubscribe callback.
WatchReturnNoUnsub(s) ==
    /\ pc[s] = "return"
    /\ pc' = [pc EXCEPT ![s] = "done"]
    /\ UNCHANGED <<dvars, xvars, subs, queue, closed, mu, panicked, pubPc, pubEv, pubTodo,
                   received, joined, left, dropped>>

\* The handler returns: the deferred unsub() runs.
WatchReturn(s) ==
    /\ pc[s] = "return"
    /\ Unsubscribe(s)
    /\ pc' = [pc EXCEPT ![s] = "done"]
    /\ left' = [left EXCEPT ![s] = Started]
    /\ UNCHANGED <<dvars, xvars, pubPc, pubEv, pubTodo, received, joined, dropped>>

\* -------------------------------------------------- broker: specification

BrokerInit ==
    /\ BrokerNew
    /\ pubPc = "recv"
    /\ pubEv = 0
    /\ pubTodo = {}
    /\ pc = [s \in Subscribers |-> "start"]
    /\ received = [s \in Subscribers |-> <<>>]
    /\ joined = [s \in Subscribers |-> 0]
    /\ left = [s \in Subscribers |-> 0]
    /\ dropped = [s \in Subscribers |-> {}]

BrokerNext ==
    \/ RunRecv
    \/ PublishLock
    \/ \E s \in Subscribers : PublishSend(s)
    \/ PublishUnlock
    \/ \E s \in Subscribers : WatchSubscribe(s)
    \/ \E s \in Subscribers, sendOk \in BOOLEAN : WatchRecv(s, sendOk)
    \/ \E s \in Subscribers : WatchCtxDone(s)
    \/ \E s \in Subscribers : WatchReturn(s)

\* The detector as sql-tapd's defaults leave it before any event.
DetIdle ==
    /\ det = New(1, 1, 0)
    /\ detAlt = New(1, 1, 0)
    /\ detSolo = [q \in RealTemplates |-> New(1, 1, 0)]
    /\ res = ZeroResult
    /\ resAlt = ZeroResult
    /\ resSolo = [q \in RealTemplates |-> ZeroResult]
    /\ call = <<>>
    /\ hist = [q \in RealTemplates |-> <<>>]
    /\ alertLog = [q \in RealTemplates |-> <<>>]

InitBroker == BrokerInit /\ DetIdle /\ XIdle

SpecBroker == InitBroker /\ [][BrokerNext]_vars

\* The producer's goroutine keeps running: each of its steps is taken when it
\* stays possible.
SpecBrokerLive ==
    /\ SpecBroker
    /\ WF_vars(PublishLock)
    /\ WF_vars(\E s \in Subscribers : PublishSend(s))
    /\ WF_vars(PublishUnlock)

\* ------------------------------------------------------ broker: properties

\* The sequence <<a + 1, ..., b>> (empty when b <= a).
Range(a, b) == [i \in 1..(b - a) |-> a + i]

Min(a, b) == IF a <= b THEN a ELSE b

\* The times of sq strictly increase.
StrictlyIncreasing(sq) == \A i \in 1..Len(sq) : \A j \in (i + 1)..Len(sq) : sq[i] < sq[j]

\* The number of the last event whose Publish has visited s (or found it not
\* yet registered): the events published to a subscriber s are
\* joined[s] + 1 .. Visited(s).
Visited(s) == IF pubPc = "send" /\ s \in pubTodo THEN pubEv - 1 ELSE Started

\* Everything handed to s so far, in the order its reader sees it.
Delivered(s) == received[s] \o queue[s]

\* C1: every Publish call returns, whatever the subscribers and the fill level
\* of their queues, and no send fails (none is made on a closed stream).
C1_PublishReturns ==
    /\ [](~panicked)
    /\ \A e \in 1..MaxEvents : (pubPc = "lock" /\ pubEv = e) ~> (Published >= e)

\* C1 witness: the last Publish has returned although every subscriber's queue
\* was full and no subscriber has read anything.
C1_Witness ==
    /\ Published = MaxEvents
    /\ \A s \in Subscribers :
          /\ pc[s] = "loop"
          /\ received[s] = <<>>
          /\ Len(queue[s]) = BufSize
          /\ MaxEvents \in dropped[s]

\* C2: a subscribed consumer that has read nothing holds the first
\* min(N, BufSize) of the N events published to it, in order, the rest having
\* been dropped for it; a subscriber whose queue was never full at a send
\* holds or has read all N.
C2_BlockedSubscriberKeepsFirstK ==
    \A s \in Subscribers :
        pc[s] = "loop" =>
            LET n == Visited(s) - joined[s]
            IN  /\ received[s] = <<>> =>
                      /\ queue[s] = Range(joined[s], joined[s] + Min(n, BufSize))
                      /\ dropped[s] = {joined[s] + i : i \in (BufSize + 1)..n}
                /\ dropped[s] = {} => Delivered(s) = Range(joined[s], Visited(s))

\* C2 witness: s1 has read nothing and lost the events after its first
\* BufSize, while s2, reading, has got every event.
C2_Witness ==
    /\ Published = MaxEvents
    /\ pc["s1"] = "loop" /\ pc["s2"] = "loop"
    /\ joined["s1"] = 0 /\ joined["s2"] = 0
    /\ received["s1"] = <<>>
    /\ queue["s1"] = Range(0, BufSize)
    /\ dropped["s1"] = (BufSize + 1)..MaxEvents
    /\ dropped["s2"] = {}
    /\ Delivered("s2") = Range(0, MaxEvents)

\* C3: what a subscriber reads, followed by what waits in its queue, is a
\* subsequence of the events published so far, in publish order: strictly
\* increasing event numbers, none repeated.
C3_SubscriberSeesPublishOrder ==
    \A s \in Subscribers :
        /\ StrictlyIncreasing(Delivered(s))
        /\ \A i \in 1..Len(Delivered(s)) : Delivered(s)[i] \in (joined[s] + 1)..Started

\* C3 witness: a subscriber that has read two events with a dropped one between
\* what it read and what waits in its queue.
C3_Witness ==
    \E s \in Subscribers :
        /\ Len(received[s]) >= 2
        /\ queue[s] # <<>>
        /\ \E e \in dropped[s] : received[s][Len(received[s])] < e /\ e < queue[s][1]

\* The state part and the step part of C4.
C4_State ==
    \A s \in Subscribers :
        pc[s] = "done" =>
            /\ s \notin subs
            /\ s \notin pubTodo
            /\ closed[s]
            /\ \A i \in 1..Len(Delivered(s)) : Delivered(s)[i] <= left[s]
            /\ \A x \in Subscribers \ {s} :
                  (pc[x] = "loop" /\ dropped[x] = {}) =>
                      Delivered(x) = Range(joined[x], Visited(x))

C4_Step ==
    \A s \in Subscribers :
        pc[s] = "done" => (queue'[s] = queue[s] /\ received'[s] = received[s])

\* C4: once a consumer's unsubscribe callback has returned, the subscriber is
\* removed and its stream closed, its reader has terminated, nothing published
\* afterwards is in its stream and its stream never changes again; the other
\* subscribers still get every event their queue has room for.
C4_NothingAfterUnsubscribe == [](C4_State) /\ [][C4_Step]_vars

\* C4 witness: s1 has unsubscribed after reading an event, events were
\* published afterwards, and s2 holds or has read every event.
C4_Witness ==
    /\ pc["s1"] = "done"
    /\ received["s1"] # <<>>
    /\ left["s1"] < Published
    /\ pc["s2"] = "loop"
    /\ joined["s2"] = 0
    /\ Delivered("s2") = Range(0, Published)
    /\ Published = MaxEvents

\* The state part and the step part of C5.
C5_State ==
    /\ ~panicked
    /\ \A s \in Subscribers : closed[s] => (s \notin subs /\ s \notin pubTodo)
    /\ pubPc = "send" => pubTodo \subseteq subs

C5_Step ==
    /\ (pubPc = "lock" /\ pubPc' = "send") => pubTodo' = subs
    /\ mu = "publish" => (subs' = subs /\ closed' = closed)
    /\ \A s \in Subscribers :
          (/\ pubPc = "send"
           /\ s \in pubTodo
           /\ s \notin pubTodo'
           /\ Len(queue[s]) < BufSize) => queue'[s] = Append(queue[s], pubEv)

\* C5: Publish never sends on a closed stream; while Publish iterates, the set
\* of subscribers does not change and Publish visits exactly the registered
\* ones; and a subscriber it visits whose queue has room gets the event.
C5_ConcurrentUseIsSafe == [](C5_State) /\ [][C5_Step]_vars

\* C5 witness: Publish is iterating and still has to visit s1, whose handler
\* has returned and waits to unsubscribe, while s2 waits to subscribe.
C5_Witness ==
    /\ pubPc = "send"
    /\ "s1" \in pubTodo
    /\ pc["s1"] = "return"
    /\ pc["s2"] = "start"
    /\ Len(queue["s1"]) < BufSize

\* ------------------------------------------------- detector: specification

OtherCooldown(c) == CHOOSE x \in Cooldowns : x # c

\* Number of non-empty calls made so far.
NCalls == Len(hist["q1"]) + Len(hist["q2"])

DetInit ==
    /\ \E n \in Thresholds, w \in Windows, c \in Cooldowns :
          /\ det = New(n, w, c)
          /\ detAlt = New(n, w, OtherCooldown(c))
          /\ detSolo = [q \in RealTemplates |-> New(n, w, c)]
    /\ res = ZeroResult
    /\ resAlt = ZeroResult
    /\ resSolo = [q \in RealTemplates |-> ZeroResult]
    /\ call = <<>>
    /\ hist = [q \in RealTemplates |-> <<>>]
    /\ alertLog = [q \in RealTemplates |-> <<>>]

\* One call d.Record(query, t), made on det and on its companions.
DoRecord(query, t) ==
    /\ query # "" => NCalls < MaxCalls
    /\ UNCHANGED <<bvars, xvars>>
    /\ LET r == Record(det, query, t)
           ra == Record(detAlt, query, t)
       IN  /\ det' = r.d
           /\ res' = r.res
           /\ detAlt' = ra.d
           /\ resAlt' = ra.res
           /\ call' = <<query>>
           /\ IF query = ""
              THEN UNCHANGED <<detSolo, resSolo, hist, alertLog>>
              ELSE LET rs == Record(detSolo[query], query, t)
                   IN  /\ detSolo' = [detSolo EXCEPT ![query] = rs.d]
                       /\ resSolo' = [resSolo EXCEPT ![query] = rs.res]
                       /\ hist' = [hist EXCEPT ![query] = Append(@, t)]
                       /\ alertLog' = [alertLog EXCEPT ![query] =
                                         IF r.res.Alert # <<>> THEN Append(@, t) ELSE @]

RecordCall == \E query \in Templates, t \in Times : DoRecord(query, t)

DetNext == RecordCall

InitDetector == DetInit /\ BrokerInit /\ XIdle

SpecDetector == InitDetector /\ [][DetNext]_vars

\* ----------------------------------------------------- detector: properties

\* The last call was a Record of a non-empty query.
Called == call # <<>> /\ call[1] # ""
\* Its query and its time.
CallQuery == call[1]
CallTime == hist[CallQuery][Len(hist[CallQuery])]

\* A step that is the call Record(q, t).
IsRecordStep(q, t) == call' = <<q>> /\ hist' = [hist EXCEPT ![q] = Append(@, t)]

\* All times of ts lie within one window of length w.
WithinOneWindow(ts, w) == \A i, j \in 1..Len(ts) : ts[i] - ts[j] <= w

\* The times of ts never decrease.
Nondecreasing(ts) == \A i \in 1..Len(ts) : \A j \in i..Len(ts) : ts[i] <= ts[j]

\* The indices of ts whose time lies in the window of t: t - w <= ts[i] <= t.
InWindow(ts, w, t) == {i \in 1..Len(ts) : t - w <= ts[i] /\ ts[i] <= t}

\* The calls of h made more than w after the call before them.
Gaps(h, w) == {i \in 2..Len(h) : h[i] - h[i - 1] > w}

\* The index of the last such call.
LastGap(h, w) == CHOOSE i \in Gaps(h, w) : \A j \in Gaps(h, w) : j <= i

\* C6: on a fresh detector with threshold N, calls 1..N-1 of a template return
\* matched=false with no alert, and call N, when the N times lie within one
\* window, returns matched=true with an alert carrying that query and count N.
C6_NthCallMatches ==
    Called =>
        LET h == hist[CallQuery]
        IN  /\ Len(h) < det.threshold => res = ZeroResult
            /\ (Len(h) = det.threshold /\ WithinOneWindow(h, det.window)) =>
                   res = [Matched |-> TRUE,
                          Alert |-> <<[Query |-> CallQuery, Count |-> det.threshold]>>]

\* C6 witness: the second of two calls at different times, threshold 2, matched
\* with an alert of count 2.
C6_Witness ==
    /\ Called
    /\ det.threshold = 2
    /\ Len(hist[CallQuery]) = 2
    /\ hist[CallQuery][1] # hist[CallQuery][2]
    /\ res.Matched
    /\ res.Alert = <<[Query |-> CallQuery, Count |-> 2]>>

\* The state part and the step part of C7.
C7_State ==
    Called =>
        /\ Cardinality(InWindow(MapGet(det.queries, CallQuery), det.window, CallTime))
               >= det.threshold => res.Matched
        /\ res.Matched = resAlt.Matched
        /\ det.queries = detAlt.queries

C7_Step ==
    \A q \in RealTemplates, t \in Times :
        (/\ IsRecordStep(q, t)
         /\ alertLog[q] # <<>>
         /\ t - alertLog[q][Len(alertLog[q])] < det.cooldown) => res'.Alert = <<>>

\* C7: a call that keeps at least N timestamps in its window returns
\* matched=true; matched is the same under another cooldown and last-alert
\* state; and a call inside the cooldown of the last alert carries no alert.
C7_MatchedBeyondThreshold == [](C7_State) /\ [][C7_Step]_vars

\* C7 witness: a matched call without alert, inside the cooldown, after the
\* threshold was reached, while the companion detector (other cooldown) alerted.
C7_Witness ==
    /\ Called
    /\ res.Matched
    /\ res.Alert = <<>>
    /\ resAlt.Alert # <<>>
    /\ Len(hist[CallQuery]) > det.threshold
    /\ alertLog[CallQuery] # <<>>
    /\ CallTime - alertLog[CallQuery][Len(alertLog[CallQuery])] < det.cooldown

\* The step part and the state part of C8.
C8_Step ==
    \A q \in RealTemplates, t \in Times :
        (IsRecordStep(q, t) /\ res'.Matched) =>
            (res'.Alert # <<>> <=>
                \/ alertLog[q] = <<>>
                \/ t - alertLog[q][Len(alertLog[q])] >= det.cooldown)

C8_Apart ==
    \A q \in RealTemplates :
        \A i \in 1..Len(alertLog[q]) : \A j \in (i + 1)..Len(alertLog[q]) :
            alertLog[q][j] - alertLog[q][i] >= det.cooldown

\* C8: a matched call at time t carries an alert exactly when the template has
\* never alerted or its last alert is at least the cooldown before t; any two
\* alerts of one template are at least the cooldown apart.
C8_AlertPerCooldown == [](C8_Apart) /\ [][C8_Step]_vars

\* C8 witness: a second alert of a template, exactly the (positive) cooldown
\* after the first, with a matched call without alert in between.
C8_Witness ==
    /\ Called
    /\ det.cooldown > 0
    /\ Len(alertLog[CallQuery]) = 2
    /\ alertLog[CallQuery][2] - alertLog[CallQuery][1] = det.cooldown
    /\ res.Alert # <<>>
    /\ Len(hist[CallQuery]) > Len(alertLog[CallQuery]) + det.threshold - 1

\* What C9 says of the last call of a template that has had a gap: only calls
\* made since the last gap are retained, and a match has N calls since that gap
\* whose times lie within one window.
GapResets ==
    LET h == hist[CallQuery]
        g == LastGap(h, det.window)
    IN  /\ Len(MapGet(det.queries, CallQuery)) <= Len(h) - g + 1
        /\ res.Matched =>
               \E S \in SUBSET (g..Len(h)) :
                   /\ Cardinality(S) = det.threshold
                   /\ \A i, j \in S : h[i] - h[j] <= det.window

C10_TemplateIndependence ==
    /\ \A q \in RealTemplates :
          /\ MapGet(det.queries, q) = MapGet(detSolo[q].queries, q)
          /\ q \in DOMAIN det.lastAlert <=> q \in DOMAIN detSolo[q].lastAlert
          /\ q \in DOMAIN det.lastAlert => det.lastAlert[q] = detSolo[q].lastAlert[q]
    /\ Called => res = resSolo[CallQuery]

\* C10 witness: q2 reaches its threshold and alerts after q1 has alerted and
\* while q2 has never alerted, with a positive cooldown.
C10_Witness ==
    /\ Called
    /\ CallQuery = "q2"
    /\ det.cooldown > 0
    /\ det.threshold = 2
    /\ res.Alert # <<>>
    /\ Len(alertLog["q1"]) = 1
    /\ Len(alertLog["q2"]) = 1
    /\ CallTime - alertLog["q1"][1] < det.cooldown

\* C11: a Record call with an empty query returns matched=false with no alert
\* and leaves the detector as it was, for every threshold, 1 included.
C11_EmptyQueryIgnored ==
    [][call' = <<"">> => (res' = ZeroResult /\ det' = det)]_vars

\* C11 witness: an empty-query call on a detector of threshold 1 that already
\* tracks a template, answered with the zero Result.
C11_Witness ==
    /\ call = <<"">>
    /\ det.threshold = 1
    /\ "q1" \in DOMAIN det.queries
    /\ ~res.Matched
    /\ "" \notin DOMAIN det.queries


\* The times recorded for the template of the last call that lie in the
\* half-open window of that call: t - W < ts <= t.
HalfOpenWindow ==
    SelectSeq(hist[CallQuery], LAMBDA ts : CallTime - det.window < ts /\ ts <= CallTime)

\* C38: after Record(q, t), when the call times of q never decreased, the
\* timestamps retained for q are exactly the recorded ones with
\* t - W < ts <= t: one that is exactly W older than t is dropped.
C38_HalfOpenWindow ==
    (Called /\ Nondecreasing(hist[CallQuery])) =>
        MapGet(det.queries, CallQuery) = HalfOpenWindow

\* C39: whatever the order of the call times, no timestamp older than t - W
\* is among those Record counts against the threshold at time t.
C39_CountsWindowOnly ==
    Called =>
        LET times == MapGet(det.queries, CallQuery)
        IN  \A i \in 1..Len(times) : times[i] >= CallTime - det.window

\* ------------------------------------------------------------ query strings

\* The bytes of the SQL strings the model uses, by value; a string the model
\* does not name has no bytes here.
Bytes(q) ==
    CASE q = "" -> <<>>
      [] q = "SELECT 1" -> <<"S", "E", "L", "E", "C", "T", " ", "1">>
      [] q = "SELECT 2" -> <<"S", "E", "L", "E", "C", "T", " ", "2">>
      [] q = "select  'a'" ->
             <<"s", "e", "l", "e", "c", "t", " ", " ", "'", "a", "'">>
      [] q = " SELECT $1" -> <<" ", "S", "E", "L", "E", "C", "T", " ", "$", "1">>
      [] q = "SELEC" -> <<"S", "E", "L", "E", "C">>
      [] q = "INSERT 1" -> <<"I", "N", "S", "E", "R", "T", " ", "1">>
      [] q = "BEGIN" -> <<"B", "E", "G", "I", "N">>
      [] q = "begin;" -> <<"b", "e", "g", "i", "n", ";">>
      [] q = "START TRANSACTION" ->
             <<"S", "T", "A", "R", "T", " ", "T", "R", "A", "N", "S", "A", "C", "T",
               "I", "O", "N">>
      [] q = "COMMIT" -> <<"C", "O", "M", "M", "I", "T">>
      [] q = " rollback" -> <<" ", "r", "o", "l", "l", "b", "a", "c", "k">>
      [] q = "ROLLBACK" -> <<"R", "O", "L", "L", "B", "A", "C", "K">>
      [] q = "SELECT" -> <<"S", "E", "L", "E", "C", "T">>
      [] q = "DO ?" -> <<"D", "O", " ", "?">>
      [] q = "SELECT ?" -> <<"S", "E", "L", "E", "C", "T", " ", "?">>
      [] q = "SELECT ? + ?" ->
             <<"S", "E", "L", "E", "C", "T", " ", "?", " ", "+", " ", "?">>

\* The upper-case form of the ASCII lower-case letters.
UpperOf ==
    [a |-> "A", b |-> "B", c |-> "C", d |-> "D", e |-> "E", f |-> "F", g |-> "G",
     h |-> "H", i |-> "I", j |-> "J", k |-> "K", l |-> "L", m |-> "M", n |-> "N",
     o |-> "O", p |-> "P", q |-> "Q", r |-> "R", s |-> "S", t |-> "T", u |-> "U",
     v |-> "V", w |-> "W", x |-> "X", y |-> "Y", z |-> "Z"]

\* strings.ToUpper, on ASCII.
ToUpper(s) == [i \in 1..Len(s) |-> IF s[i] \in DOMAIN UpperOf THEN UpperOf[s[i]] ELSE s[i]]

\* strings.EqualFold, on ASCII.
EqualFold(a, b) == ToUpper(a) = ToUpper(b)

\* strings.HasPrefix
HasPrefix(s, prefix) == Len(s) >= Len(prefix) /\ SubSeq(s, 1, Len(prefix)) = prefix

isDigit(c) == c \in {"0", "1", "2", "3", "4", "5", "6", "7", "8", "9"}

isSpace(c) == c \in {" ", "\t", "\n", "\r"}

\* isNumBoundary without the minus sign.
isNumBoundaryNoMinus(c) ==
    isSpace(c) \/ c \in {",", "(", ")", "=", "<", ">", "+", "*", "/", ";"}

isNumBoundary(c) == isSpace(c) \/ c \in {",", "(", ")", "=", "<", ">", "+", "-", "*", "/", ";"}

RECURSIVE TrimLeft(_)
\* strings.TrimLeft of white space.
TrimLeft(s) == IF s # <<>> /\ isSpace(s[1]) THEN TrimLeft(Tail(s)) ELSE s

RECURSIVE TrimRight(_)
\* strings.TrimRight of white space.
TrimRight(s) ==
    IF s # <<>> /\ isSpace(s[Len(s)]) THEN TrimRight(SubSeq(s, 1, Len(s) - 1)) ELSE s

\* strings.TrimSpace, on ASCII.
TrimSpace(s) == TrimLeft(TrimRight(s))

\* ---------------------------------------------------------------- Normalize

\* normalizeString that returns at once, without looking for the closing quote.
normalizeStringOpeningOnly(sql, j) == j

RECURSIVE normalizeString(_, _)
\* normalizeString: the position after the string literal whose body starts at
\* j (a doubled quote is skipped; an unterminated literal runs to the end).
normalizeString(sql, j) ==
    IF j > Len(sql) THEN j
    ELSE IF sql[j] = "'" /\ j + 1 <= Len(sql) /\ sql[j + 1] = "'"
         THEN normalizeString(sql, j + 2)
         ELSE IF sql[j] = "'" THEN j + 1 ELSE normalizeString(sql, j + 1)

RECURSIVE keepParam(_, _)
\* keepParam: the position after the digits of a $N parameter that start at j.
keepParam(sql, j) ==
    IF j <= Len(sql) /\ isDigit(sql[j]) THEN keepParam(sql, j + 1) ELSE j

RECURSIVE normalizeNumberDigitsOnly(_, _)
\* normalizeNumber that takes digits only, no decimal point.
normalizeNumberDigitsOnly(sql, j) ==
    IF j <= Len(sql) /\ isDigit(sql[j]) THEN normalizeNumberDigitsOnly(sql, j + 1) ELSE j

RECURSIVE normalizeNumber(_, _)
\* normalizeNumber: the position after the digits and dots that start at j.
normalizeNumber(sql, j) ==
    IF j <= Len(sql) /\ (isDigit(sql[j]) \/ sql[j] = ".")
    THEN normalizeNumber(sql, j + 1)
    ELSE j

\* normalizeNumber's ok: the run that ends before j is a standalone number.
StandaloneNumber(sql, j) == j > Len(sql) \/ isNumBoundary(sql[j])

RECURSIVE NormalizeLoopNoParams(_, _, _, _)
\* The loop of Normalize without the $N case, where a number may also follow
\* a dollar sign.
NormalizeLoopNoParams(sql, i, b, prevSpace) ==
    IF i > Len(sql) THEN b
    ELSE LET ch == sql[i]
         IN  IF ch = "'"
             THEN NormalizeLoopNoParams(sql, normalizeString(sql, i + 1),
                                        b \o <<"'", "?", "'">>, FALSE)
             ELSE IF /\ isDigit(ch)
                     /\ (i = 1 \/ isNumBoundary(sql[i - 1]) \/ sql[i - 1] = "$")
                     /\ StandaloneNumber(sql, normalizeNumber(sql, i + 1))
             THEN NormalizeLoopNoParams(sql, normalizeNumber(sql, i + 1), Append(b, "?"),
                                        FALSE)
             ELSE IF isSpace(ch)
             THEN IF ~prevSpace /\ Len(b) > 0
                  THEN NormalizeLoopNoParams(sql, i + 1, Append(b, " "), TRUE)
                  ELSE NormalizeLoopNoParams(sql, i + 1, b, prevSpace)
             ELSE NormalizeLoopNoParams(sql, i + 1, Append(b, ch), FALSE)

RECURSIVE NormalizeLoop(_, _, _, _)
\* The loop of Normalize from position i (1-based), with builder b.
NormalizeLoop(sql, i, b, prevSpace) ==
    IF i > Len(sql) THEN b
    ELSE LET ch == sql[i]
         IN  IF ch = "'"
             THEN NormalizeLoop(sql, normalizeString(sql, i + 1),
                                b \o <<"'", "?", "'">>, FALSE)
             ELSE IF ch = "$" /\ i + 1 <= Len(sql) /\ isDigit(sql[i + 1])
             THEN NormalizeLoop(sql, keepParam(sql, i + 1),
                                b \o SubSeq(sql, i, keepParam(sql, i + 1) - 1), FALSE)
             ELSE IF /\ isDigit(ch)
                     /\ (i = 1 \/ isNumBoundary(sql[i - 1]))
                     /\ StandaloneNumber(sql, normalizeNumber(sql, i + 1))
             THEN NormalizeLoop(sql, normalizeNumber(sql, i + 1), Append(b, "?"), FALSE)
             ELSE IF isSpace(ch)
             THEN IF ~prevSpace /\ Len(b) > 0
                  THEN NormalizeLoop(sql, i + 1, Append(b, " "), TRUE)
                  ELSE NormalizeLoop(sql, i + 1, b, prevSpace)
             ELSE NormalizeLoop(sql, i + 1, Append(b, ch), FALSE)

\* The builder's string returned as it is, trailing space included.
TrimRightBlankNone(s) == s

RECURSIVE TrimRightBlank(_)
\* strings.TrimRight(s, " ")
TrimRightBlank(s) ==
    IF s # <<>> /\ s[Len(s)] = " " THEN TrimRightBlank(SubSeq(s, 1, Len(s) - 1)) ELSE s

\* query.Normalize, on the bytes of a string.
Normalize(sql) ==
    IF sql = <<>> THEN <<>> ELSE TrimRightBlank(NormalizeLoop(sql, 1, <<>>, FALSE))

\* ------------------------------------------------------------- orchestrator

\* Number of events run takes from p.Events().
MaxRunEvents == 3

\* proxy.Op
Ops == {"Query", "Exec", "Prepare", "Bind", "Execute", "Begin", "Commit", "Rollback"}

\* The Op and Query of the events the proxy hands to run.
RunInputs ==
    {[Op |-> "Query", Query |-> "SELECT 1"], [Op |-> "Query", Query |-> "SELECT 2"],
     [Op |-> "Exec", Query |-> "select  'a'"], [Op |-> "Execute", Query |-> " SELECT $1"],
     [Op |-> "Query", Query |-> "SELEC"], [Op |-> "Exec", Query |-> "INSERT 1"],
     [Op |-> "Begin", Query |-> "BEGIN"], [Op |-> "Commit", Query |-> "COMMIT"],
     [Op |-> "Prepare", Query |-> "SELECT 1"], [Op |-> "Bind", Query |-> "SELECT 1"],
     [Op |-> "Query", Query |-> ""]}

\* The StartTimes and Durations of those events, and the -slow-threshold values.
StartTimes == {0, 2}
Durations == {0, 1}
SlowThresholds == {0, 1}

\* isSelectQuery without the switch on op.
isSelectQueryAnyOp(op, query) ==
    LET q == TrimSpace(Bytes(query))
    IN  Len(q) >= 6 /\ EqualFold(SubSeq(q, 1, 6), <<"S", "E", "L", "E", "C", "T">>)

\* isSelectQuery
isSelectQuery(op, query) ==
    IF op \in {"Query", "Exec", "Execute"}
    THEN LET q == TrimSpace(Bytes(query))
         IN  Len(q) >= 6 /\ EqualFold(SubSeq(q, 1, 6), <<"S", "E", "L", "E", "C", "T">>)
    ELSE FALSE

\* An event as an interceptor emits it: the orchestrator's fields are zero.
NewEvent(op, query, t, dur) ==
    [Op |-> op, Query |-> query, StartTime |-> t, Duration |-> dur,
     NPlus1 |-> FALSE, SlowQuery |-> FALSE, NormalizedQuery |-> <<>>]

\* The event is a SELECT issued as Query, Exec or Execute.
IsSelectEvent(op, query) ==
    /\ op \in {"Query", "Exec", "Execute"}
    /\ HasPrefix(ToUpper(TrimSpace(Bytes(query))), <<"S", "E", "L", "E", "C", "T">>)

\* run, up to the start of its loop: det is created only for a positive
\* -nplus1-threshold.  The cooldown is positive, as sql-tapd's default is.
RunInit ==
    /\ \E n \in 0..MaxThreshold, w \in Windows, c \in Cooldowns \ {0},
          slow \in SlowThresholds :
          /\ runFlags = [nplus1Threshold |-> n, nplus1Window |-> w, nplus1Cooldown |-> c,
                         slowThreshold |-> slow]
          /\ runDet = IF n > 0 THEN <<New(n, w, c)>> ELSE <<>>
    /\ runEv = <<>>
    /\ runCount = 0
    /\ runHist = <<>>

\* One iteration of run's loop for the event ev that an interceptor emitted
\* with this Op, Query, StartTime and Duration: normalise, record, flag,
\* publish.  No consumer is subscribed here, so Publish leaves the broker as
\* it is; delivery to subscribers is the broker's part above.
RunEvent(op, query, t, dur) ==
    /\ runCount < MaxRunEvents
    /\ LET ev == NewEvent(op, query, t, dur)
           ev1 == IF ev.Query # ""
                  THEN [ev EXCEPT !.NormalizedQuery = Normalize(Bytes(ev.Query))]
                  ELSE ev
           recorded == runDet # <<>> /\ isSelectQuery(ev.Op, ev.Query)
           r == Record(runDet[1], ev.Query, ev.StartTime)
           ev2 == IF recorded THEN [ev1 EXCEPT !.NPlus1 = r.res.Matched] ELSE ev1
           ev3 == IF runFlags.slowThreshold > 0 /\ ev.Duration >= runFlags.slowThreshold
                  THEN [ev2 EXCEPT !.SlowQuery = TRUE]
                  ELSE ev2
           norm == Normalize(Bytes(ev.Query))
       IN  /\ runDet' = IF recorded THEN <<r.d>> ELSE runDet
           /\ runEv' = <<ev3>>
           /\ runHist' = IF IsSelectEvent(ev.Op, ev.Query)
                         THEN MapPut(runHist, norm, Append(MapGet(runHist, norm), ev.StartTime))
                         ELSE runHist
    /\ runCount' = runCount + 1
    /\ UNCHANGED <<runFlags, dvars, bvars, yvars, cvars, pgvars, myvars>>

RunLoop ==
    \E in \in RunInputs, t \in StartTimes, dur \in Durations :
        RunEvent(in.Op, in.Query, t, dur)

RunNext == RunLoop

InitRun == RunInit /\ BrokerInit /\ DetIdle /\ ConnIdle /\ YIdle

SpecRun == InitRun /\ [][RunNext]_vars

\* ------------------------------------------------- orchestrator: properties

\* The event last published and its template.
LastEv == runEv[1]
LastNorm == Normalize(Bytes(LastEv.Query))

\* C12: with detection enabled, a published SELECT event is flagged NPlus1
\* when at least N SELECT events of its template (equal Normalize output),
\* itself included, lie in the window of its StartTime; stated for StartTimes
\* that never decrease.
C12_CountsPerTemplate ==
    (/\ runEv # <<>>
     /\ runDet # <<>>
     /\ IsSelectEvent(LastEv.Op, LastEv.Query)
     /\ Nondecreasing(runHist[LastNorm])
     /\ Cardinality(InWindow(runHist[LastNorm], runFlags.nplus1Window, LastEv.StartTime))
            >= runFlags.nplus1Threshold)
        => LastEv.NPlus1

\* The event published by a step of run's loop.
C13_Step ==
    runCount' # runCount =>
        LET ev == runEv'[1]
        IN  /\ ~IsSelectEvent(ev.Op, ev.Query) => (~ev.NPlus1 /\ runDet' = runDet)
            /\ runFlags.nplus1Threshold = 0 => (~ev.NPlus1 /\ runDet' = <<>>)

\* C13: an event that is not a SELECT issued as Query, Exec or Execute is
\* published with NPlus1 = false and leaves the detector as it was (Record is
\* not called for it), and with threshold 0 no event is flagged.
C13_OnlySelectsRecorded == [][C13_Step]_vars

\* C13 witness: a Prepare of "SELECT 1" published unflagged while the detector
\* of threshold 1 already counts "SELECT 1", so that recording it would match.
C13_Witness ==
    /\ runEv # <<>>
    /\ LastEv.Op = "Prepare"
    /\ LastEv.Query = "SELECT 1"
    /\ ~LastEv.NPlus1
    /\ runDet # <<>>
    /\ runFlags.nplus1Threshold = 1
    /\ "SELECT 1" \in DOMAIN runDet[1].queries

\* ------------------------------------------------------ interceptors: common

\* Capacity of the proxy's events channel.
EventsCap == 1
\* Number of client messages captured on the connection.
MaxRequests == 3
\* Number of client messages captured on a PostgreSQL connection when the last
\* one is an Execute.
MaxMessages == 4

\* The SQL texts the client sends: to PostgreSQL, to MySQL as COM_QUERY, and to
\* MySQL as COM_STMT_PREPARE.
PgQueries == {"SELECT 1", "BEGIN", "START TRANSACTION", "COMMIT", " rollback"}
MyQueries == {"SELECT 1", "START TRANSACTION", "COMMIT"}
PreparedTexts == {"SELECT ? + ?", "COMMIT", "SELECT 1", "DO ?"}

\* The decimal digits, by value.
Digit(n) == <<"0", "1", "2", "3", "4", "5", "6", "7", "8", "9">>[n + 1]

RECURSIVE FormatUint(_)
\* strconv.FormatUint(n, 10): the decimal digits of n.
FormatUint(n) ==
    IF n < 10 THEN <<Digit(n)>> ELSE Append(FormatUint(n \div 10), Digit(n % 10))

\* The value of a decimal digit.
DigitValue(c) == CHOOSE n \in 0..9 : Digit(n) = c

RECURSIVE ParseUint(_)
\* The number a string of decimal digits denotes.
ParseUint(s) ==
    IF s = <<>> THEN 0
    ELSE 10 * ParseUint(SubSeq(s, 1, Len(s) - 1)) + DigitValue(s[Len(s)])

\* generateID that returns the id without advancing nextID.
generateIDNoIncrement(n) == [next |-> n, id |-> FormatUint(n + 1)]

\* conn.generateID, on nextID = n: the new nextID and the id returned.
generateID(n) == [next |-> n + 1, id |-> FormatUint(n + 1)]

\* time.Since(ev.StartTime), in ticks: the request was read before its response.
Since == 1

\* proxy.Event{ID, Op, Query, Args, TxID} with the other fields zero.
ConnEvent(id, op, query, args, txID) ==
    [ID |-> id, Op |-> op, Query |-> query, Args |-> args, Duration |-> 0,
     RowsAffected |-> 0, Error |-> <<>>, TxID |-> txID]

\* emitEvent's select { case c.events <- ev: default: }, on the channel's
\* buffer: the event is dropped when the buffer is full.
\* A send that the channel takes whatever it holds already.
ChanSendAlways(ch, ev) == Append(ch, ev)

ChanSend(ch, ev) == IF Len(ch) < EventsCap THEN Append(ch, ev) ELSE ch

\* The emitEvent call of ev, recorded: ev was created by request req, and
\* answered tells whether the terminator of that request's response has been
\* observed.
EmitRecord(ev, req, answered) ==
    [ev |-> ev, ok |-> Len(events) < EventsCap, req |-> req, answered |-> answered]

\* emitEvent(ev)
emitEvent(ev, req, answered) ==
    /\ events' = ChanSend(events, ev)
    /\ lastEmit' = <<EmitRecord(ev, req, answered)>>
    /\ emitCount' = emitCount + 1
    /\ emittedIDs' = emittedIDs \cup {ParseUint(ev.ID)}

\* The step calls emitEvent for no event.
NoEmit == UNCHANGED <<events, lastEmit, emitCount, emittedIDs>>

\* The event ev has been created: the transaction its Op opens or closes.
Created(ev) ==
    /\ lastCreated' = <<ev>>
    /\ openTx' = IF ev.Op = "Begin" THEN ev.TxID
                 ELSE IF ev.Op \in {"Commit", "Rollback"} THEN <<>> ELSE openTx
    /\ usedTx' = usedTx \cup {ev.TxID}

\* The step creates no event.
NoneCreated == UNCHANGED <<lastCreated, openTx, usedTx>>

\* The orchestrator takes the oldest event from p.Events().
Consume ==
    /\ ~panicked
    /\ events # <<>>
    /\ events' = Tail(events)
    /\ UNCHANGED <<driver, nextID, activeTxID, uuidCount, preparedStmts, lastEmit, emitCount,
                   emittedIDs, reqCount, srvQueue, lastReply, lastCreated, openTx, usedTx,
                   pgvars, myvars, ovars, dvars, bvars, yvars>>

\* -------------------------------------------------- PostgreSQL interceptor

\* The statement names and parameter lists the client uses.
StmtNames == {"", "s1"}
ParamLists == {<<>>, <<"1", "2">>}

\* detectTx that clears activeTxID before it returns it.
pgDetectTxClearsFirst(active, fresh, query, defaultOp) ==
    LET upper == ToUpper(TrimSpace(Bytes(query)))
    IN  IF HasPrefix(upper, Bytes("BEGIN"))
        THEN [txID |-> fresh, op |-> "Begin", active |-> fresh]
        ELSE IF HasPrefix(upper, Bytes("COMMIT"))
        THEN [txID |-> <<>>, op |-> "Commit", active |-> <<>>]
        ELSE IF HasPrefix(upper, Bytes("ROLLBACK"))
        THEN [txID |-> <<>>, op |-> "Rollback", active |-> <<>>]
        ELSE [txID |-> active, op |-> defaultOp, active |-> active]

\* postgres conn.detectTx: the txID and op of the event and the new activeTxID;
\* fresh is the UUID uuid.New() returns.
pgDetectTx(active, fresh, query, defaultOp) ==
    LET upper == ToUpper(TrimSpace(Bytes(query)))
    IN  IF HasPrefix(upper, Bytes("BEGIN"))
        THEN [txID |-> fresh, op |-> "Begin", active |-> fresh]
        ELSE IF HasPrefix(upper, Bytes("COMMIT"))
        THEN [txID |-> active, op |-> "Commit", active |-> <<>>]
        ELSE IF HasPrefix(upper, Bytes("ROLLBACK"))
        THEN [txID |-> active, op |-> "Rollback", active |-> <<>>]
        ELSE [txID |-> active, op |-> defaultOp, active |-> active]

\* What emitting the event of query q does to the connection: detectTx,
\* generateID, emitEvent at once, and the request forwarded upstream.
PgEmit(q, defaultOp, args) ==
    LET r == pgDetectTx(activeTxID, <<uuidCount + 1>>, q, defaultOp)
        ev == ConnEvent(generateID(nextID).id, r.op, q, args, r.txID)
    IN  /\ activeTxID' = r.active
        /\ uuidCount' = IF r.op = "Begin" THEN uuidCount + 1 ELSE uuidCount
        /\ nextID' = generateID(nextID).next
        /\ Created(ev)
        /\ emitEvent(ev, reqCount + 1, FALSE)
        /\ srvQueue' = Append(srvQueue, [req |-> reqCount + 1, cmd |-> defaultOp])

\* captureClientMsg of a Query message: handleSimpleQuery.
handleSimpleQuery(q) ==
    /\ driver = "postgres"
    /\ reqCount < MaxRequests
    /\ reqCount' = reqCount + 1
    /\ PgEmit(q, "Query", <<>>)
    /\ srvUnnamed' = <<>>
    /\ srvPortal' = <<>>
    /\ srvExecuted' = <<>>
    /\ UNCHANGED <<driver, preparedStmts, lastReply, lastParse, lastBindArgs, lastBindStmt,
                   myvars, ovars, dvars, bvars, yvars>>

\* captureClientMsg of a Parse message: handleParse.
handleParse(name, q) ==
    /\ driver = "postgres"
    /\ reqCount < MaxRequests
    /\ reqCount' = reqCount + 1
    /\ lastParse' = q
    /\ preparedStmts' = IF name # "" THEN MapPut(preparedStmts, name, q) ELSE preparedStmts
    /\ srvUnnamed' = IF name = "" THEN <<q>> ELSE srvUnnamed
    /\ srvPortal' = IF name = "" THEN <<>> ELSE srvPortal
    /\ NoEmit
    /\ NoneCreated
    /\ UNCHANGED <<driver, nextID, activeTxID, uuidCount, srvQueue, lastReply, lastBindArgs,
                   lastBindStmt, srvExecuted, myvars, ovars, dvars, bvars, yvars>>

\* captureClientMsg of a Bind message: handleBind.
handleBind(stmt, params) ==
    /\ driver = "postgres"
    /\ reqCount < MaxRequests
    /\ reqCount' = reqCount + 1
    /\ lastBindStmt' = stmt
    /\ lastBindArgs' = params
    /\ srvPortal' = IF stmt = "" /\ srvUnnamed # <<>>
                    THEN <<[query |-> srvUnnamed[1], args |-> params]>>
                    ELSE <<>>
    /\ NoEmit
    /\ NoneCreated
    /\ UNCHANGED <<driver, nextID, activeTxID, uuidCount, preparedStmts, srvQueue, lastReply,
                   lastParse, srvUnnamed, srvExecuted, myvars, ovars, dvars, bvars, yvars>>

\* The query handleExecute resolves: the stored statement of the last Bind's
\* name, else the last Parse.
ExecuteQuery ==
    IF lastBindStmt # "" /\ lastBindStmt \in DOMAIN preparedStmts
    THEN preparedStmts[lastBindStmt]
    ELSE lastParse

\* captureClientMsg of an Execute message: handleExecute.
handleExecute ==
    /\ driver = "postgres"
    /\ reqCount < MaxMessages
    /\ reqCount' = reqCount + 1
    /\ PgEmit(ExecuteQuery, "Execute", lastBindArgs)
    /\ srvExecuted' = srvPortal
    /\ UNCHANGED <<driver, preparedStmts, lastReply, lastParse, lastBindArgs, lastBindStmt,
                   srvUnnamed, srvPortal, myvars, ovars, dvars, bvars, yvars>>

\* The terminators upstream answers a request with: CommandComplete with its
\* row count, or ErrorResponse with its message.
PgTerminators ==
    {[kind |-> "OK", rows |-> 0, error |-> <<>>], [kind |-> "OK", rows |-> 3, error |-> <<>>],
     [kind |-> "ERR", rows |-> 0, error |-> <<78, 111>>]}

\* captureUpstreamMsg of the CommandComplete or ErrorResponse that answers the
\* oldest unanswered request: handleCommandComplete and handleErrorResponse
\* change nothing of the connection.
PgUpstream(m) ==
    /\ driver = "postgres"
    /\ srvQueue # <<>>
    /\ srvQueue' = Tail(srvQueue)
    /\ lastReply' = <<[req |-> Head(srvQueue).req, cmd |-> Head(srvQueue).cmd, out |-> m]>>
    /\ NoEmit
    /\ NoneCreated
    /\ UNCHANGED <<driver, nextID, activeTxID, uuidCount, preparedStmts, reqCount, pgvars,
                   myvars, ovars, dvars, bvars, yvars>>

PgClientQuery == \E q \in PgQueries : handleSimpleQuery(q)
PgClientParse == \E name \in StmtNames, q \in PgQueries : handleParse(name, q)
PgClientBind == \E stmt \in StmtNames, params \in ParamLists : handleBind(stmt, params)
PgClientExecute == handleExecute
PgUpstreamMsg == \E m \in PgTerminators : PgUpstream(m)

\* ------------------------------------------------------- MySQL interceptor

\* MySQL command bytes and response packet indicators.
comQuery == 3
comStmtPrepare == 22
comStmtExecute == 23
comStmtClose == 25
iOK == 0
iERR == 255
iEOF == 254

\* MySQL binary protocol field types.
mysqlTypeTiny == 1
mysqlTypeShort == 2
mysqlTypeLong == 3
mysqlTypeFloat == 4
mysqlTypeDouble == 5
mysqlTypeNull == 6
mysqlTypeLongLong == 8
mysqlTypeInt24 == 9
mysqlTypeYear == 13
mysqlTypeVarString == 253

\* Go's s[a:b] of a byte slice (0-based, b exclusive).
Slice(s, a, b) == SubSeq(s, a + 1, b)

RECURSIVE LittleEndian(_)
\* binary.LittleEndian.Uint16/32/64 of the bytes s.
LittleEndian(s) == IF s = <<>> THEN 0 ELSE s[1] + 256 * LittleEndian(Tail(s))

RECURSIVE PutLittleEndian(_, _)
\* The width bytes of n, least significant first.
PutLittleEndian(n, width) ==
    IF width = 0 THEN <<>> ELSE <<n % 256>> \o PutLittleEndian(n \div 256, width - 1)

\* payloadLen and payloadByte, on the payload of a packet.
payloadLen(payload) == Len(payload)
payloadByte(payload) == IF Len(payload) = 0 THEN 0 ELSE payload[1]

\* readLenEncInt that takes the first byte as the value whatever it is.
readLenEncIntFirstByte(data, offset) ==
    IF offset >= Len(data) THEN [v |-> 0, n |-> 0] ELSE [v |-> data[offset + 1], n |-> 1]

\* readLenEncInt: the value and the number of bytes consumed.
readLenEncInt(data, offset) ==
    IF offset >= Len(data) THEN [v |-> 0, n |-> 0]
    ELSE LET b == data[offset + 1]
         IN  IF b < 251 THEN [v |-> b, n |-> 1]
             ELSE IF b = 252
             THEN IF offset + 2 >= Len(data) THEN [v |-> 0, n |-> 0]
                  ELSE [v |-> LittleEndian(Slice(data, offset + 1, offset + 3)), n |-> 3]
             ELSE IF b = 253
             THEN IF offset + 3 >= Len(data) THEN [v |-> 0, n |-> 0]
                  ELSE [v |-> LittleEndian(Slice(data, offset + 1, offset + 4)), n |-> 4]
             ELSE IF b = 254
             THEN IF offset + 8 >= Len(data) THEN [v |-> 0, n |-> 0]
                  ELSE [v |-> LittleEndian(Slice(data, offset + 1, offset + 9)), n |-> 9]
             ELSE [v |-> 0, n |-> 0]

\* isEOFPacket
\* isEOFPacket that looks at the first byte only.
isEOFPacketAnyLength(payload) == payloadByte(payload) = iEOF

isEOFPacket(payload) == payloadByte(payload) = iEOF /\ payloadLen(payload) < 9

\* strconv.Itoa / FormatInt(v, 10)
FormatInt(v) == IF v < 0 THEN <<"-">> \o FormatUint(-v) ELSE FormatUint(v)

\* int8/int16/int32/int64 of the little-endian bytes s (two's complement).
SignedLittleEndian(s) ==
    IF s[Len(s)] >= 128 THEN -(LittleEndian([i \in 1..Len(s) |-> 255 - s[i]]) + 1)
    ELSE LittleEndian(s)

\* A fixed-width integer parameter at off.
FixedInt(data, off, width) ==
    IF off + width > Len(data) THEN [val |-> <<"?">>, n |-> 0]
    ELSE [val |-> FormatInt(SignedLittleEndian(Slice(data, off, off + width))), n |-> width]

\* The value that stands for a run-time panic of the decoding.
Panic == <<"panic">>

\* The length-encoded integer at off has the 0xFE prefix and eight bytes with
\* the top bit set: int(length) is negative, end := off + int(length) lies
\* below off, the test end > len(data) fails and data[off:end] is out of range.
lengthIsNegative(data, off) ==
    /\ off + 8 < Len(data)
    /\ data[off + 1] = 254
    /\ data[off + 9] >= 128

\* readBinaryValue: the rendering of the parameter at off and the bytes it
\* takes.  A float is rendered as the token "f": its digits are not modelled.
readBinaryValue(data, off, typ) ==
    IF off >= Len(data) THEN [val |-> <<"?">>, n |-> 0]
    ELSE IF typ = mysqlTypeTiny THEN FixedInt(data, off, 1)
    ELSE IF typ \in {mysqlTypeShort, mysqlTypeYear} THEN FixedInt(data, off, 2)
    ELSE IF typ \in {mysqlTypeLong, mysqlTypeInt24} THEN FixedInt(data, off, 4)
    ELSE IF typ = mysqlTypeLongLong THEN FixedInt(data, off, 8)
    ELSE IF typ = mysqlTypeFloat
    THEN IF off + 4 > Len(data) THEN [val |-> <<"?">>, n |-> 0] ELSE [val |-> <<"f">>, n |-> 4]
    ELSE IF typ = mysqlTypeDouble
    THEN IF off + 8 > Len(data) THEN [val |-> <<"?">>, n |-> 0] ELSE [val |-> <<"f">>, n |-> 8]
    ELSE IF typ = mysqlTypeNull THEN [val |-> <<"N", "U", "L", "L">>, n |-> 0]
    ELSE IF lengthIsNegative(data, off) THEN [val |-> Panic, n |-> 0]
    ELSE LET l == readLenEncInt(data, off)
         IN  IF l.n = 0 THEN [val |-> <<"?">>, n |-> 0]
             ELSE IF off + l.n + l.v > Len(data) THEN [val |-> <<"?">>, n |-> 0]
             ELSE [val |-> Slice(data, off + l.n, off + l.n + l.v), n |-> l.n + l.v]

RECURSIVE ReadValues(_, _, _, _, _, _)
\* The loop of parseStmtExecuteArgs over the parameters i..numParams-1.
ReadValues(payload, nullBitmap, types, i, off, numParams) ==
    IF i >= numParams THEN <<>>
    ELSE IF (nullBitmap[(i \div 8) + 1] \div (2 ^ (i % 8))) % 2 = 1
    THEN <<<<"N", "U", "L", "L">>>>
             \o ReadValues(payload, nullBitmap, types, i + 1, off, numParams)
    ELSE LET r == readBinaryValue(payload, off, types[i + 1])
         IN  IF r.val = Panic THEN <<Panic>>
             ELSE <<r.val>>
                      \o ReadValues(payload, nullBitmap, types, i + 1, off + r.n, numParams)

\* parseStmtExecuteArgs that decodes the first parameter only.
parseStmtExecuteArgsFirstOnly(payload, numParams) ==
    IF numParams = 0 THEN <<>>
    ELSE LET nullBitmapLen == (numParams + 7) \div 8
             off == 10 + nullBitmapLen + 1
             types == [i \in 1..numParams |-> payload[off + (i - 1) * 2 + 1]]
         IN  <<readBinaryValue(payload, off + numParams * 2, types[1]).val>>

\* parseStmtExecuteArgs
parseStmtExecuteArgs(payload, numParams) ==
    IF numParams = 0 THEN <<>>
    ELSE LET nullBitmapLen == (numParams + 7) \div 8
         IN  IF 10 + nullBitmapLen + 1 > Len(payload) THEN <<>>
             ELSE LET nullBitmap == Slice(payload, 10, 10 + nullBitmapLen)
                      boundFlag == payload[10 + nullBitmapLen + 1]
                      off == 10 + nullBitmapLen + 1
                  IN  IF boundFlag = 1
                      THEN IF off + numParams * 2 > Len(payload) THEN <<>>
                           ELSE ReadValues(payload, nullBitmap,
                                           [i \in 1..numParams |-> payload[off + (i - 1) * 2 + 1]],
                                           0, off + numParams * 2, numParams)
                      ELSE ReadValues(payload, nullBitmap, [i \in 1..numParams |-> 0],
                                      0, off, numParams)

\* mysql conn.detectTx: as the PostgreSQL one, with START TRANSACTION.
myDetectTx(active, fresh, query, defaultOp) ==
    LET upper == ToUpper(TrimSpace(Bytes(query)))
    IN  IF HasPrefix(upper, Bytes("BEGIN")) \/ HasPrefix(upper, Bytes("START TRANSACTION"))
        THEN [txID |-> fresh, op |-> "Begin", active |-> fresh]
        ELSE IF HasPrefix(upper, Bytes("COMMIT"))
        THEN [txID |-> active, op |-> "Commit", active |-> <<>>]
        ELSE IF HasPrefix(upper, Bytes("ROLLBACK"))
        THEN [txID |-> active, op |-> "Rollback", active |-> <<>>]
        ELSE [txID |-> active, op |-> defaultOp, active |-> active]

\* The packets upstream sends, by payload.
AffectedRows == {3, 251}
ErrMessage == <<78, 111>>

\* A length-encoded integer below 2^16, as the server writes it.
PutLenEncInt(n) == IF n < 251 THEN <<n>> ELSE <<252>> \o PutLittleEndian(n, 2)

\* OK_Packet: header, affected_rows, last_insert_id, status flags, warnings.
OKPacket(rows) == <<iOK>> \o PutLenEncInt(rows) \o <<0, 2, 0, 0, 0>>
\* ERR_Packet: header, errno, '#', sqlstate, message; and without sqlstate.
ERRPacket == <<iERR, 122, 4, 35, 52, 50, 83, 48, 50>> \o ErrMessage
ERRPacketNoState == <<iERR, 122, 4>> \o ErrMessage
EOFPacket == <<iEOF, 0, 0, 2, 0>>
ColumnCountPacket == <<1>>
ColumnDefPacket == <<3, 100, 101, 102>>
RowPacket == <<1, 49>>
\* A row whose first column has its length in the 8-byte encoding, which
\* starts with 0xFE: ten bytes of payload.
LongRowPacket == <<iEOF, 1, 0, 0, 0, 0, 0, 0, 0, 49>>

\* COM_STMT_PREPARE_OK: status, stmt_id, num_columns, num_params, reserved,
\* warning_count.
PrepareOKPacket(id, numColumns, numParams) ==
    <<iOK>> \o PutLittleEndian(id, 4) \o PutLittleEndian(numColumns, 2)
        \o PutLittleEndian(numParams, 2) \o <<0, 0, 0>>

\* The responses upstream gives to a COM_QUERY or COM_STMT_EXECUTE: the
\* packets, and what the terminator says.
QueryResponses ==
    {[pkts |-> <<OKPacket(n)>>, out |-> [kind |-> "OK", rows |-> n, error |-> <<>>]] :
        n \in AffectedRows}
    \cup {[pkts |-> <<ERRPacket>>, out |-> [kind |-> "ERR", rows |-> 0, error |-> ErrMessage]],
          [pkts |-> <<ERRPacketNoState>>,
           out |-> [kind |-> "ERR", rows |-> 0, error |-> ErrMessage]],
          [pkts |-> <<ColumnCountPacket, ColumnDefPacket, EOFPacket, RowPacket, LongRowPacket,
                     EOFPacket>>,
           out |-> [kind |-> "EOF", rows |-> 0, error |-> <<>>]],
          [pkts |-> <<ColumnCountPacket, ColumnDefPacket, EOFPacket, ERRPacket>>,
           out |-> [kind |-> "ERR", rows |-> 0, error |-> ErrMessage]]}

\* The number of ? markers and of result columns of a statement text.
NumParams(q) == Cardinality({i \in 1..Len(Bytes(q)) : Bytes(q)[i] = "?"})
NumColumns(q) == IF HasPrefix(Bytes(q), Bytes("SELECT")) THEN 1 ELSE 0

\* n copies of the packet p.
Copies(n, p) == [i \in 1..n |-> p]

\* The responses upstream gives to a COM_STMT_PREPARE of q when id is the next
\* statement id: COM_STMT_PREPARE_OK with its definition blocks, or ERR.
PrepareResponses(q, id) ==
    {[pkts |-> <<PrepareOKPacket(id, NumColumns(q), NumParams(q))>>
                  \o Copies(NumParams(q), ColumnDefPacket)
                  \o (IF NumParams(q) > 0 THEN <<EOFPacket>> ELSE <<>>)
                  \o Copies(NumColumns(q), ColumnDefPacket)
                  \o (IF NumColumns(q) > 0 THEN <<EOFPacket>> ELSE <<>>),
      out |-> [kind |-> "PrepareOK", rows |-> 0, error |-> <<>>]],
     [pkts |-> <<ERRPacket>>, out |-> [kind |-> "ERR", rows |-> 0, error |-> ErrMessage]]}

\* The packets of a response as upstream queues them for request k of command
\* cmd, whose payload encoded the parameter values args: the first is marked,
\* the last carries what the terminator says.
Tagged(resp, k, cmd, args) ==
    [i \in 1..Len(resp.pkts) |->
        [payload |-> resp.pkts[i], req |-> k, cmd |-> cmd, args |-> args, first |-> i = 1,
         term |-> IF i = Len(resp.pkts) THEN <<resp.out>> ELSE <<>>]]

\* The COM_STMT_EXECUTE payloads the client sends for statement id with
\* numParams parameters, each with the Args it encodes: command, stmt_id,
\* flags, iteration_count, then the NULL bitmap, new_params_bound_flag, types
\* and values (for one parameter a TINY -1, a NULL, and a VAR_STRING whose
\* length prefix is 0xFE and eight bytes 0xFF; for two the LONGLONGs 1 and 2).
ExecHeader(id) == <<comStmtExecute>> \o PutLittleEndian(id, 4) \o <<0, 1, 0, 0, 0>>
ExecPayloads(id, numParams) ==
    IF numParams = 0 THEN {[bytes |-> ExecHeader(id), args |-> <<>>]}
    ELSE IF numParams = 1
    THEN {[bytes |-> ExecHeader(id) \o <<0, 1, mysqlTypeTiny, 0, 255>>,
           args |-> <<<<"-", "1">>>>],
          [bytes |-> ExecHeader(id) \o <<1, 1, mysqlTypeNull, 0>>,
           args |-> <<<<"N", "U", "L", "L">>>>],
          [bytes |-> ExecHeader(id) \o <<0, 1, 253, 0, 254, 255, 255, 255, 255, 255, 255, 255, 255>>,
           args |-> <<>>]}
    ELSE {[bytes |-> ExecHeader(id) \o <<0, 1, mysqlTypeLongLong, 0, mysqlTypeLongLong, 0>>
                        \o PutLittleEndian(1, 8) \o PutLittleEndian(2, 8),
           args |-> <<<<"1">>, <<"2">>>>]}

\* The requests whose response is still outstanding.
Outstanding == {srvOut[i].req : i \in 1..Len(srvOut)}

\* The client sends request k while earlier responses are outstanding: those
\* exchanges and this one overlap.
Overlapped(k) == IF srvOut # <<>> THEN overlap \cup Outstanding \cup {k} ELSE overlap

\* The client may send a command that upstream answers: it has received every
\* response, or it has not yet sent ahead of one on this connection.
MaySend == ~panicked /\ reqCount < MaxRequests /\ (srvOut = <<>> \/ overlap = {})

\* captureClientPacket of a COM_QUERY with text q, which upstream will answer
\* with resp.
MyComQuery(q, resp) ==
    /\ driver = "mysql"
    /\ MaySend
    /\ reqCount' = reqCount + 1
    /\ lastCommand' = comQuery
    /\ lastQuery' = q
    /\ myState' = "FirstResp"
    /\ LET r == myDetectTx(activeTxID, <<uuidCount + 1>>, q, "Query")
           ev == ConnEvent(generateID(nextID).id, r.op, q, <<>>, r.txID)
       IN  /\ activeTxID' = r.active
           /\ uuidCount' = IF r.op = "Begin" THEN uuidCount + 1 ELSE uuidCount
           /\ nextID' = generateID(nextID).next
           /\ pending' = <<ev>>
           /\ pendingReq' = reqCount + 1
           /\ Created(ev)
    /\ NoEmit
    /\ srvOut' = srvOut \o Tagged(resp, reqCount + 1, comQuery, <<>>)
    /\ overlap' = Overlapped(reqCount + 1)
    /\ UNCHANGED <<driver, preparedStmts, srvQueue, lastReply, lastStmtID, skipPackets,
                   srvStmts, cliStmts, pgvars, ovars, dvars, bvars, yvars>>

\* captureClientPacket of a COM_STMT_PREPARE with text q.
MyComStmtPrepare(q, resp) ==
    /\ driver = "mysql"
    /\ MaySend
    /\ reqCount' = reqCount + 1
    /\ lastCommand' = comStmtPrepare
    /\ lastQuery' = q
    /\ myState' = "FirstResp"
    /\ NoEmit
    /\ NoneCreated
    /\ srvOut' = srvOut \o Tagged(resp, reqCount + 1, comStmtPrepare, <<>>)
    /\ srvStmts' = IF resp.out.kind = "PrepareOK"
                   THEN Append(srvStmts, [query |-> q, numParams |-> NumParams(q),
                                          req |-> reqCount + 1])
                   ELSE srvStmts
    /\ overlap' = Overlapped(reqCount + 1)
    /\ UNCHANGED <<driver, nextID, activeTxID, uuidCount, preparedStmts, srvQueue, lastReply,
                   lastStmtID, skipPackets, pending, pendingReq, cliStmts, pgvars, ovars,
                   dvars, bvars, yvars>>

\* c.preparedStmts[stmtID]: the zero preparedStmt when the id is absent.
StmtGet(stmtID) ==
    IF stmtID \in DOMAIN preparedStmts THEN preparedStmts[stmtID]
    ELSE [query |-> "", numParams |-> 0]

\* captureClientPacket of a COM_STMT_EXECUTE whose payload the client built
\* from the parameter values sent.
MyComStmtExecute(payload, sent, resp) ==
    /\ driver = "mysql"
    /\ MaySend
    /\ reqCount' = reqCount + 1
    /\ lastCommand' = comStmtExecute
    /\ myState' = "FirstResp"
    /\ IF Len(payload) >= 5
       THEN LET stmtID == LittleEndian(Slice(payload, 1, 5))
                stmt == StmtGet(stmtID)
                args == parseStmtExecuteArgs(payload, stmt.numParams)
                r == myDetectTx(activeTxID, <<uuidCount + 1>>, stmt.query, "Execute")
                ev == ConnEvent(generateID(nextID).id, r.op, stmt.query, args, r.txID)
            IN  /\ lastStmtID' = stmtID
                /\ lastQuery' = stmt.query
                /\ IF args = <<Panic>>
                   THEN /\ panicked' = TRUE
                        /\ UNCHANGED <<activeTxID, uuidCount, nextID, pending, pendingReq>>
                        /\ NoneCreated
                   ELSE /\ activeTxID' = r.active
                        /\ uuidCount' = IF r.op = "Begin" THEN uuidCount + 1 ELSE uuidCount
                        /\ nextID' = generateID(nextID).next
                        /\ pending' = <<ev>>
                        /\ pendingReq' = reqCount + 1
                        /\ Created(ev)
                        /\ UNCHANGED panicked
       ELSE /\ UNCHANGED <<lastStmtID, lastQuery, activeTxID, uuidCount, nextID, pending,
                           pendingReq, panicked>>
            /\ NoneCreated
    /\ NoEmit
    /\ srvOut' = IF panicked' THEN srvOut
                 ELSE srvOut \o Tagged(resp, reqCount + 1, comStmtExecute, sent)
    /\ overlap' = Overlapped(reqCount + 1)
    /\ UNCHANGED <<driver, preparedStmts, srvQueue, lastReply, skipPackets, srvStmts, cliStmts,
                   pgvars, ovars, dvars, yvars>>
    /\ UNCHANGED <<subs, queue, closed, mu, pubPc, pubEv, pubTodo, pc, received, joined, left,
                   dropped>>

\* delete(c.preparedStmts, stmtID)
MapDelete(m, k) == [x \in (DOMAIN m) \ {k} |-> m[x]]

\* captureClientPacket of a COM_STMT_CLOSE, which upstream does not answer.
MyComStmtClose(payload) ==
    /\ driver = "mysql"
    /\ ~panicked
    /\ reqCount < MaxRequests
    /\ srvOut = <<>>
    /\ reqCount' = reqCount + 1
    /\ preparedStmts' = IF Len(payload) >= 5
                        THEN MapDelete(preparedStmts, LittleEndian(Slice(payload, 1, 5)))
                        ELSE preparedStmts
    /\ cliStmts' = cliStmts \ {LittleEndian(Slice(payload, 1, 5))}
    /\ NoEmit
    /\ NoneCreated
    /\ UNCHANGED <<driver, nextID, activeTxID, uuidCount, srvQueue, lastReply, myState,
                   lastCommand, lastQuery, lastStmtID, skipPackets, pending, pendingReq, srvOut,
                   srvStmts, overlap, pgvars, ovars, dvars, bvars, yvars>>

\* finalizeOK, finalizeError and finalizeResultSet: the pending event as it is
\* emitted.
FinalizedOK(ev, payload) ==
    [ev EXCEPT !.Duration = Since,
               !.RowsAffected = IF Len(payload) > 1 THEN readLenEncInt(payload, 1).v ELSE @]

\* finalizeError that leaves the message of the ERR packet out of the event.
FinalizedErrorNoMessage(ev, payload) == [ev EXCEPT !.Duration = Since]

FinalizedError(ev, payload) ==
    [ev EXCEPT !.Duration = Since,
               !.Error = IF Len(payload) > 9 /\ payload[4] = 35
                         THEN Slice(payload, 9, Len(payload))
                         ELSE IF Len(payload) > 3 THEN Slice(payload, 3, Len(payload)) ELSE @]

FinalizedResultSet(ev) == [ev EXCEPT !.Duration = Since]

\* The skip count that leaves out the EOF packet after each block.
SkipCountDefinitionsOnly(numParams, numColumns) == numParams + numColumns

\* The number of packets handleStmtPrepareOK skips.
SkipCount(numParams, numColumns) ==
    (IF numParams > 0 THEN numParams + 1 ELSE 0)
        + (IF numColumns > 0 THEN numColumns + 1 ELSE 0)

\* What captureUpstreamPacket does with a packet in the present state: the new
\* response state, which finalize function runs ("" for none), and whether
\* handleStmtPrepareOK registers a statement.
UpstreamStep(payload) ==
    CASE myState = "Idle" -> [state |-> "Idle", fin |-> "", prep |-> FALSE]
      [] myState = "FirstResp" ->
           IF payloadByte(payload) = iOK /\ lastCommand # comStmtPrepare
           THEN [state |-> "Idle", fin |-> "OK", prep |-> FALSE]
           ELSE IF payloadByte(payload) = iERR
           THEN [state |-> "Idle", fin |-> "ERR", prep |-> FALSE]
           ELSE IF payloadByte(payload) = iOK /\ lastCommand = comStmtPrepare
           THEN IF Len(payload) < 12
                THEN [state |-> "Idle", fin |-> "", prep |-> FALSE]
                ELSE [state |-> IF SkipCount(LittleEndian(Slice(payload, 7, 9)),
                                             LittleEndian(Slice(payload, 5, 7))) > 0
                                THEN "SkipPrepare"
                                ELSE "Idle",
                      fin |-> "", prep |-> TRUE]
           ELSE [state |-> "ColumnDefs", fin |-> "", prep |-> FALSE]
      [] myState = "ColumnDefs" ->
           [state |-> IF isEOFPacket(payload) THEN "RowData" ELSE "ColumnDefs",
            fin |-> "", prep |-> FALSE]
      [] myState = "RowData" ->
           IF isEOFPacket(payload) THEN [state |-> "Idle", fin |-> "RS", prep |-> FALSE]
           ELSE IF payloadByte(payload) = iERR
           THEN [state |-> "Idle", fin |-> "ERR", prep |-> FALSE]
           ELSE [state |-> "RowData", fin |-> "", prep |-> FALSE]
      [] myState = "SkipPrepare" ->
           [state |-> IF skipPackets - 1 <= 0 THEN "Idle" ELSE "SkipPrepare",
            fin |-> "", prep |-> FALSE]

\* captureUpstreamPacket of the next packet upstream sends, p, which is then
\* forwarded to the client.
MyUpstream ==
    /\ driver = "mysql"
    /\ ~panicked
    /\ srvOut # <<>>
    /\ LET p == Head(srvOut)
           u == UpstreamStep(p.payload)
           ev == IF pending = <<>> THEN <<>>
                 ELSE IF u.fin = "OK" THEN <<FinalizedOK(pending[1], p.payload)>>
                 ELSE IF u.fin = "ERR" THEN <<FinalizedError(pending[1], p.payload)>>
                 ELSE IF u.fin = "RS" THEN <<FinalizedResultSet(pending[1])>>
                 ELSE <<>>
       IN  /\ srvOut' = Tail(srvOut)
           /\ myState' = u.state
           /\ IF u.fin # ""
              THEN /\ pending' = <<>>
                   /\ pendingReq' = 0
              ELSE UNCHANGED <<pending, pendingReq>>
           /\ IF ev # <<>>
              THEN emitEvent(ev[1], pendingReq, p.term # <<>> /\ p.req = pendingReq)
              ELSE NoEmit
           /\ IF u.prep
              THEN /\ preparedStmts' =
                          MapPut(preparedStmts, LittleEndian(Slice(p.payload, 1, 5)),
                                 [query |-> lastQuery,
                                  numParams |-> LittleEndian(Slice(p.payload, 7, 9))])
                   /\ skipPackets' = SkipCount(LittleEndian(Slice(p.payload, 7, 9)),
                                               LittleEndian(Slice(p.payload, 5, 7)))
              ELSE /\ preparedStmts' = preparedStmts
                   /\ skipPackets' = IF myState = "SkipPrepare" THEN skipPackets - 1
                                     ELSE skipPackets
           /\ lastReply' = IF p.term # <<>>
                           THEN <<[req |-> p.req, cmd |-> p.cmd, out |-> p.term[1]]>>
                           ELSE lastReply
           /\ cliStmts' = IF p.first /\ p.cmd = comStmtPrepare /\ payloadByte(p.payload) = iOK
                          THEN cliStmts \cup {LittleEndian(Slice(p.payload, 1, 5))}
                          ELSE cliStmts
    /\ NoneCreated
    /\ UNCHANGED <<driver, nextID, activeTxID, uuidCount, reqCount, srvQueue, lastCommand,
                   lastQuery, lastStmtID, srvStmts, overlap, pgvars, ovars, dvars, bvars, yvars>>

MyClientQuery == \E q \in MyQueries, resp \in QueryResponses : MyComQuery(q, resp)
MyClientPrepare ==
    \E q \in PreparedTexts : \E resp \in PrepareResponses(q, Len(srvStmts) + 1) :
        MyComStmtPrepare(q, resp)
MyClientExecute ==
    \E id \in cliStmts : \E x \in ExecPayloads(id, srvStmts[id].numParams) :
        \E resp \in QueryResponses : MyComStmtExecute(x.bytes, x.args, resp)
MyClientClose == \E id \in cliStmts : MyComStmtClose(<<comStmtClose>> \o PutLittleEndian(id, 4))

\* ------------------------------------------------------ interceptors: spec

\* The -driver flag's values.
Drivers == {"postgres", "mysql"}

\* One connection of the proxy the -driver flag selects.
ProxyInit == \E d \in Drivers : NewConn(d)

ProxyNext ==
    \/ PgClientQuery
    \/ PgClientParse
    \/ PgClientBind
    \/ PgClientExecute
    \/ PgUpstreamMsg
    \/ MyClientQuery
    \/ MyClientPrepare
    \/ MyClientExecute
    \/ MyClientClose
    \/ MyUpstream
    \/ Consume

InitProxy == ProxyInit /\ RunIdle /\ BrokerInit /\ DetIdle /\ YIdle

SpecProxy == InitProxy /\ [][ProxyNext]_vars

\* ---------------------------------------------- properties: interceptors

\* The event the last step created, when it created one.
CreatedNow == IF nextID' # nextID THEN lastCreated' ELSE <<>>

\* C14: on one connection a Begin event carries a fresh nonempty TxID, and
\* every other event carries the TxID of the most recent Begin not yet followed
\* by a Commit or Rollback event (that terminator included), the empty TxID
\* when there is none.
C14_Step ==
    CreatedNow # <<>> =>
        LET ev == CreatedNow[1]
        IN  IF ev.Op = "Begin" THEN ev.TxID # <<>> /\ ev.TxID \notin usedTx
            ELSE ev.TxID = openTx

C14_TxIDFollowsOpenBegin == [][C14_Step]_vars

\* A Commit has closed the transaction of the first Begin and carried its id.
C14_Witness ==
    /\ lastCreated # <<>>
    /\ lastCreated[1].Op = "Commit"
    /\ lastCreated[1].TxID = <<1>>
    /\ openTx = <<>>
    /\ activeTxID = <<>>

\* C15: an event is emitted only after the terminator of its request's
\* response has been observed, and carries its finalized Duration (> 0).
C15_EmittedAfterTerminator ==
    lastEmit # <<>> => lastEmit[1].answered /\ lastEmit[1].ev.Duration > 0

\* C16: every event an interceptor hands to emitEvent is delivered on the
\* events channel, whatever the consumer has taken from it so far: none is
\* lost.
C16_DeliveredExactlyOnce == lastEmit # <<>> => lastEmit[1].ok

\* The numeric ID of the event the last step emitted, when it emitted one.
EmittedNow == IF emitCount' # emitCount THEN <<ParseUint(lastEmit'[1].ev.ID)>> ELSE <<>>

\* C17: on one connection the IDs of the emitted events are pairwise distinct
\* and strictly increasing in emission order: each emitted ID is greater than
\* every ID emitted before it.
C17_Step == EmittedNow # <<>> => \A id \in emittedIDs : id < EmittedNow[1]

C17_IDsStrictlyIncreasing == [][C17_Step]_vars

\* A MySQL connection has emitted the events with IDs 1, 2 and 3, the last one
\* dropped by the full channel.
C17_Witness ==
    /\ driver = "mysql"
    /\ emittedIDs = {1, 2, 3}
    /\ lastEmit # <<>>
    /\ lastEmit[1].ev.ID = <<"3">>
    /\ ~lastEmit[1].ok

\* The step is captureUpstreamPacket of the terminator of the response to a
\* request of command cmd that overlapped no other exchange, and the
\* terminator is of the given kind.
TerminatorStep(cmd, kind) ==
    /\ driver = "mysql"
    /\ srvOut # <<>>
    /\ srvOut' = Tail(srvOut)
    /\ Head(srvOut).cmd = cmd
    /\ Head(srvOut).req \notin overlap
    /\ Head(srvOut).term # <<>>
    /\ Head(srvOut).term[1].kind = kind

\* The step emits an event of a request of command cmd that overlapped no other
\* exchange.
EmitStep(cmd) ==
    /\ driver = "mysql"
    /\ emitCount' # emitCount
    /\ lastEmit'[1].req \notin overlap
    /\ Head(srvOut).cmd = cmd

\* C18: a MySQL COM_QUERY answered by an OK packet (sent, as the protocol
\* requires, with no other response outstanding) yields exactly one event:
\* it is emitted when the OK packet is observed and at no other step, with
\* RowsAffected the affected_rows the server encoded in that packet and Error
\* empty, and the response state returns to Idle.
C18_Step ==
    /\ TerminatorStep(comQuery, "OK") =>
          /\ emitCount' = emitCount + 1
          /\ lastEmit'[1].req = Head(srvOut).req
          /\ lastEmit'[1].ev.RowsAffected = Head(srvOut).term[1].rows
          /\ lastEmit'[1].ev.Error = <<>>
          /\ lastEmit'[1].ev.Duration > 0
          /\ myState' = "Idle"
          /\ pending' = <<>>
    /\ EmitStep(comQuery) => lastEmit'[1].answered /\ lastEmit'[1].req = Head(srvOut).req

C18_QueryOKYieldsOneEvent == [][C18_Step]_vars

\* A COM_QUERY was answered by an OK packet with affected_rows 3, and its event
\* was emitted with RowsAffected 3.
C18_Witness ==
    /\ driver = "mysql"
    /\ lastReply # <<>>
    /\ lastReply[1].cmd = comQuery
    /\ lastReply[1].out.kind = "OK"
    /\ lastReply[1].out.rows = 3
    /\ lastEmit # <<>>
    /\ lastEmit[1].req = lastReply[1].req
    /\ lastEmit[1].ev.RowsAffected = 3
    /\ lastEmit[1].ev.Op = "Query"
    /\ emitCount = 1
    /\ myState = "Idle"

\* The connection is quiet after a database error answered its last request,
\* one that creates an event and overlapped no other exchange.
AnsweredByError ==
    /\ lastReply # <<>>
    /\ lastReply[1].out.kind = "ERR"
    /\ lastReply[1].req = reqCount
    /\ srvOut = <<>>
    /\ srvQueue = <<>>
    /\ lastReply[1].req \notin overlap
    /\ driver = "mysql" => lastReply[1].cmd \in {comQuery, comStmtExecute}

\* C19: a request answered by a database error (a MySQL ERR packet, a
\* PostgreSQL ErrorResponse) yields an event whose Error is the nonempty
\* message the server sent.
C19_ErrorRecorded ==
    AnsweredByError =>
        /\ lastEmit # <<>>
        /\ lastEmit[1].req = lastReply[1].req
        /\ lastEmit[1].ev.Error = lastReply[1].out.error
        /\ lastEmit[1].ev.Error # <<>>

\* The Op the text of a prepared statement gives its execution: that of the
\* transaction statement it is, Execute otherwise.
ExecuteOp(q) ==
    LET upper == ToUpper(TrimSpace(Bytes(q)))
    IN  IF HasPrefix(upper, Bytes("BEGIN")) \/ HasPrefix(upper, Bytes("START TRANSACTION"))
        THEN "Begin"
        ELSE IF HasPrefix(upper, Bytes("COMMIT")) THEN "Commit"
        ELSE IF HasPrefix(upper, Bytes("ROLLBACK")) THEN "Rollback"
        ELSE "Execute"

\* The step is captureUpstreamPacket of the terminator of the response to a
\* COM_STMT_EXECUTE, where neither that exchange nor the COM_STMT_PREPARE that
\* created its statement overlapped another exchange.
ExecuteTerminatorStep ==
    /\ driver = "mysql"
    /\ srvOut # <<>>
    /\ srvOut' = Tail(srvOut)
    /\ Head(srvOut).cmd = comStmtExecute
    /\ Head(srvOut).term # <<>>
    /\ Head(srvOut).req \notin overlap
    /\ srvStmts[lastStmtID].req \notin overlap

\* The step emits the one event of the execution: Query is the text of the
\* COM_STMT_PREPARE that created the statement, Args the decoded parameter
\* values, one per parameter.
ExecuteEventEmitted ==
    /\ emitCount' = emitCount + 1
    /\ lastEmit'[1].req = Head(srvOut).req
    /\ lastEmit'[1].answered
    /\ lastEmit'[1].ev.Query = srvStmts[lastStmtID].query
    /\ lastEmit'[1].ev.Args = Head(srvOut).args
    /\ Len(lastEmit'[1].ev.Args) = srvStmts[lastStmtID].numParams

\* The step belongs to a COM_STMT_PREPARE exchange on a connection where no
\* exchanges have overlapped: the client's packet is captured, or a packet of
\* the response.
PrepareExchangeStep ==
    /\ driver = "mysql"
    /\ overlap' = {}
    /\ \/ lastCommand' = comStmtPrepare /\ reqCount' = reqCount + 1
       \/ /\ srvOut # <<>>
          /\ srvOut' = Tail(srvOut)
          /\ Head(srvOut).cmd = comStmtPrepare

\* C20 as stated: the event of a MySQL COM_STMT_EXECUTE has Op = Execute.
C20_Original ==
    (/\ driver = "mysql"
     /\ lastReply # <<>>
     /\ lastReply[1].cmd = comStmtExecute
     /\ lastReply[1].req \notin overlap
     /\ lastEmit # <<>>
     /\ lastEmit[1].req = lastReply[1].req) => lastEmit[1].ev.Op = "Execute"

\* C20 amended: on a connection whose client waits for each response before
\* its next command, a MySQL COM_STMT_EXECUTE emits one event, when its response
\* terminator is observed, whose Query is the text given in the
\* COM_STMT_PREPARE that created its statement id, whose Args holds one decoded
\* string per parameter, and whose Op is Execute unless that text is a
\* transaction statement, when it is Begin, Commit or Rollback; the
\* COM_STMT_PREPARE exchange itself emits no event.
C20_Step ==
    /\ ExecuteTerminatorStep =>
          /\ ExecuteEventEmitted
          /\ lastEmit'[1].ev.Op = ExecuteOp(srvStmts[lastStmtID].query)
    /\ PrepareExchangeStep => emitCount' = emitCount

C20_ExecuteEvent == [][C20_Step]_vars

\* The second of two prepared statements, SELECT ? + ?, was executed with the
\* integers 1 and 2 and its event emitted.
C20_Witness ==
    /\ driver = "mysql"
    /\ Len(srvStmts) = 2
    /\ lastStmtID = 2
    /\ lastReply # <<>>
    /\ lastReply[1].cmd = comStmtExecute
    /\ lastEmit # <<>>
    /\ lastEmit[1].req = lastReply[1].req
    /\ lastEmit[1].ev.Op = "Execute"
    /\ lastEmit[1].ev.Query = "SELECT ? + ?"
    /\ lastEmit[1].ev.Args = <<<<"1">>, <<"2">>>>


\* C31: the prepared-statement table of a connection gains an entry only when
\* the success response of the server to the parse or prepare has been
\* observed: a PostgreSQL connection on which no response has been observed
\* yet has an empty table.
C31_EntryAfterSuccess ==
    (driver = "postgres" /\ lastReply = <<>> /\ srvQueue = <<>>) => DOMAIN preparedStmts = {}


C37_CaptureReturns == driver = "mysql" => ~panicked


\* The step has taken the packet that made it call emitEvent through the
\* relay loop: the PostgreSQL request is on its way upstream, the MySQL
\* response packet has left upstream's output for the client.
PacketForwarded ==
    IF driver = "postgres"
    THEN Len(srvQueue') = Len(srvQueue) + 1
    ELSE srvOut' = Tail(srvOut)

\* C36: a step that calls emitEvent while the events channel is full leaves
\* the channel as it is and still forwards its packet; and with the channel
\* full and nobody receiving from it, a response packet that upstream has
\* sent can still be relayed.
C36_EmitNeverBlocks ==
    /\ [][(emitCount' = emitCount + 1 /\ Len(events) = EventsCap) =>
               (events' = events /\ PacketForwarded)]_vars
    /\ []((Len(events) = EventsCap /\ ~panicked) =>
               /\ (driver = "mysql" /\ srvOut # <<>>) => ENABLED MyUpstream
               /\ (driver = "postgres" /\ srvQueue # <<>>) => ENABLED PgUpstreamMsg)

\* On a MySQL connection whose events channel stayed full, a second event
\* was emitted and skipped, and the whole response was relayed.
C36_Witness ==
    /\ driver = "mysql"
    /\ emitCount = 2
    /\ Len(events) = EventsCap
    /\ lastEmit # <<>>
    /\ ~lastEmit[1].ok
    /\ lastEmit[1].answered
    /\ srvOut = <<>>

\* ------------------------------------------------------ normalizer: spec

\* Number of characters and literal slots of a statement.
MaxSqlLen == 4

\* The characters statements are written with.
SqlChars == {"'", "1", ".", " ", "\t", "\n", "\r", "t", "-", "$", "%"}

\* A statement is a sequence of characters and of slots for a string literal
\* (STR) and for a numeric literal (NUM).
Tokens == SqlChars \cup {"STR", "NUM"}
Skeletons == UNION {[1..n -> Tokens] : n \in 0..MaxSqlLen}

\* The values a slot may be filled with: the strings a and 1'<space> (with its
\* doubled quote), the numbers 1 and 2.5.
StrValues == {<<"'", "a", "'">>, <<"'", "1", "'", "'", " ", "'">>}
NumValues == {<<"1">>, <<"2", ".", "5">>}
Fills == [str : StrValues, num : NumValues]
FirstFill == [str |-> <<"'", "a", "'">>, num |-> <<"1">>]

RECURSIVE Fill(_, _)
\* The statement skel with its slots filled by f.
Fill(skel, f) ==
    IF skel = <<>> THEN <<>>
    ELSE (IF Head(skel) = "STR" THEN f.str
          ELSE IF Head(skel) = "NUM" THEN f.num
          ELSE <<Head(skel)>>) \o Fill(Tail(skel), f)

\* A statement has been chosen and Normalize not yet called.
NormInit ==
    /\ nzSkel \in Skeletons
    /\ nzIn = <<>>
    /\ nzOut = <<>>
    /\ nzAgain = <<>>
    /\ nzOther = <<>>
    /\ nzOtherOut = <<>>

\* Normalize(sql)
NormalizeInput ==
    /\ nzIn = <<>>
    /\ nzIn' = <<Fill(nzSkel, FirstFill)>>
    /\ nzOut' = <<Normalize(Fill(nzSkel, FirstFill))>>
    /\ UNCHANGED <<nzSkel, nzAgain, nzOther, nzOtherOut, zvars, wvars>>

\* Normalize(Normalize(sql))
NormalizeOutput ==
    /\ nzOut # <<>>
    /\ nzAgain = <<>>
    /\ nzAgain' = <<Normalize(nzOut[1])>>
    /\ UNCHANGED <<nzSkel, nzIn, nzOut, nzOther, nzOtherOut, zvars, wvars>>

\* Normalize of the same statement with the literal values f.
NormalizeVariant(f) ==
    /\ nzAgain # <<>>
    /\ nzOther = <<>>
    /\ nzOther' = <<Fill(nzSkel, f)>>
    /\ nzOtherOut' = <<Normalize(Fill(nzSkel, f))>>
    /\ UNCHANGED <<nzSkel, nzIn, nzOut, nzAgain, zvars, wvars>>

NormalizeOther == \E f \in Fills : NormalizeVariant(f)

NormNext ==
    \/ NormalizeInput
    \/ NormalizeOutput
    \/ NormalizeOther

InitNorm == NormInit /\ WIdle /\ RunIdle /\ ConnIdle /\ BrokerInit /\ DetIdle

SpecNorm == InitNorm /\ [][NormNext]_vars


\* The step is captureUpstreamPacket of a packet of a result set sent for a
\* COM_QUERY or a COM_STMT_EXECUTE (a response of more than one packet: its
\* first packet is neither OK nor ERR), on a connection where no exchanges
\* have overlapped.
ResultSetStep ==
    /\ driver = "mysql"
    /\ srvOut # <<>>
    /\ srvOut' = Tail(srvOut)
    /\ overlap' = {}
    /\ Head(srvOut).cmd \in {comQuery, comStmtExecute}
    /\ ~(Head(srvOut).first /\ Head(srvOut).term # <<>>)

\* C29: the response state of a result set goes from FirstResp to ColumnDefs
\* at its first packet, to RowData at the first EOF packet, and to Idle at the
\* EOF or ERR packet that ends it; one event is emitted, at that last packet,
\* with RowsAffected 0 for EOF and the error for ERR, and none at any other
\* packet; a packet that starts with 0xFE and has 9 bytes of payload or more
\* is a row.
C29_Step ==
    ResultSetStep =>
        LET p == Head(srvOut)
        IN  /\ p.first =>
                   /\ p.payload[1] \notin {iOK, iERR}
                   /\ myState = "FirstResp"
                   /\ myState' = "ColumnDefs"
                   /\ emitCount' = emitCount
            /\ (~p.first /\ p.term = <<>>) =>
                   /\ emitCount' = emitCount
                   /\ myState \in {"ColumnDefs", "RowData"}
                   /\ myState' = IF myState = "ColumnDefs" /\ p.payload # EOFPacket
                                 THEN "ColumnDefs"
                                 ELSE "RowData"
            /\ (p.payload[1] = iEOF /\ Len(p.payload) >= 9) =>
                   /\ myState = "RowData"
                   /\ myState' = "RowData"
                   /\ emitCount' = emitCount
            /\ p.term # <<>> =>
                   /\ myState = "RowData"
                   /\ myState' = "Idle"
                   /\ emitCount' = emitCount + 1
                   /\ lastEmit'[1].req = p.req
                   /\ lastEmit'[1].ev.Duration > 0
                   /\ p.term[1].kind = "EOF" =>
                          /\ p.payload = EOFPacket
                          /\ lastEmit'[1].ev.RowsAffected = 0
                          /\ lastEmit'[1].ev.Error = <<>>
                   /\ p.term[1].kind = "ERR" =>
                          /\ p.payload[1] = iERR
                          /\ lastEmit'[1].ev.Error = p.term[1].error

C29_ResultSetPath == [][C29_Step]_vars

\* A COM_STMT_EXECUTE was answered by a result set with a row that starts with
\* 0xFE, and its one event was emitted at the closing EOF with RowsAffected 0.
C29_Witness ==
    /\ driver = "mysql"
    /\ overlap = {}
    /\ myState = "Idle"
    /\ lastReply # <<>>
    /\ lastReply[1].cmd = comStmtExecute
    /\ lastReply[1].out.kind = "EOF"
    /\ lastEmit # <<>>
    /\ lastEmit[1].req = lastReply[1].req
    /\ lastEmit[1].answered
    /\ lastEmit[1].ev.RowsAffected = 0
    /\ lastEmit[1].ev.Duration > 0


\* The step is captureUpstreamPacket of a packet of the response to a
\* COM_STMT_PREPARE that upstream accepted, on a connection where no exchanges
\* have overlapped: COM_STMT_PREPARE_OK first, then the definition blocks.
PrepareOKStep ==
    /\ driver = "mysql"
    /\ srvOut # <<>>
    /\ srvOut' = Tail(srvOut)
    /\ overlap' = {}
    /\ Head(srvOut).cmd = comStmtPrepare
    /\ Head(srvOut).first => Head(srvOut).payload[1] = iOK

\* The statement id, num_columns and num_params that a COM_STMT_PREPARE_OK
\* payload declares.
DeclaredID(payload) == payload[2] + 256 * payload[3] + 65536 * payload[4]
DeclaredColumns(payload) == payload[6] + 256 * payload[7]
DeclaredParams(payload) == payload[8] + 256 * payload[9]

\* numParams + [numParams > 0] + numColumns + [numColumns > 0].
Following(numParams, numColumns) ==
    numParams + (IF numParams > 0 THEN 1 ELSE 0) + numColumns + (IF numColumns > 0 THEN 1 ELSE 0)

\* C30: at a COM_STMT_PREPARE_OK that declares numParams and numColumns the
\* statement id is mapped to the prepared text and numParams, and the number
\* of packets to skip is numParams + [numParams > 0] + numColumns +
\* [numColumns > 0]; each of the packets that follow is skipped with no event,
\* the state is SkipPrepare until the last of them and Idle after it, and Idle
\* at once when there is none.
C30_Step ==
    PrepareOKStep =>
        LET p == Head(srvOut)
            n == Following(DeclaredParams(p.payload), DeclaredColumns(p.payload))
        IN  /\ emitCount' = emitCount
            /\ p.first =>
                   /\ Len(srvOut) = 1 + n
                   /\ skipPackets' = n
                   /\ myState' = IF n = 0 THEN "Idle" ELSE "SkipPrepare"
                   /\ DeclaredID(p.payload) \in DOMAIN preparedStmts'
                   /\ preparedStmts'[DeclaredID(p.payload)] =
                          [query |-> srvStmts[DeclaredID(p.payload)].query,
                           numParams |-> DeclaredParams(p.payload)]
            /\ ~p.first =>
                   /\ myState = "SkipPrepare"
                   /\ skipPackets' = skipPackets - 1
                   /\ skipPackets' = Len(srvOut')
                   /\ myState' = IF p.term # <<>> THEN "Idle" ELSE "SkipPrepare"
                   /\ preparedStmts' = preparedStmts

C30_PrepareSkips == [][C30_Step]_vars

\* SELECT ? + ? was prepared: its five definition packets were skipped, the
\* state is Idle, no event was emitted, and the statement id maps to the text
\* and two parameters.
C30_Witness ==
    /\ driver = "mysql"
    /\ overlap = {}
    /\ lastReply # <<>>
    /\ lastReply[1].cmd = comStmtPrepare
    /\ lastReply[1].out.kind = "PrepareOK"
    /\ lastCommand = comStmtPrepare
    /\ lastQuery = "SELECT ? + ?"
    /\ srvOut = <<>>
    /\ myState = "Idle"
    /\ skipPackets = 0
    /\ emitCount = 0
    /\ preparedStmts = [x \in {1} |-> [query |-> "SELECT ? + ?", numParams |-> 2]]

\* The client of a MySQL connection has sent no command while a response was
\* still under way.
InTurn == driver = "mysql" /\ overlap = {}

\* A step of an in-turn MySQL connection that emits an event.
InTurnEmit == driver = "mysql" /\ overlap' = {} /\ emitCount' = emitCount + 1

\* C40: on a MySQL connection whose client sends each command only after the
\* previous response is complete, the pending event is empty whenever the
\* response state is Idle, at most one event is pending at any time, and
\* every event is emitted at the OK, ERR or terminating EOF packet of the
\* request that created it, with what that packet says, leaving none pending.
C40_Step ==
    InTurnEmit =>
        /\ srvOut # <<>>
        /\ Head(srvOut).term # <<>>
        /\ Head(srvOut).term[1].kind \in {"OK", "ERR", "EOF"}
        /\ pending # <<>>
        /\ pendingReq = Head(srvOut).req
        /\ lastEmit'[1].req = Head(srvOut).req
        /\ lastEmit'[1].answered
        /\ lastEmit'[1].ev.Query = pending[1].Query
        /\ lastEmit'[1].ev.Error = Head(srvOut).term[1].error
        /\ pending' = <<>>
        /\ myState' = "Idle"

C40_PendingFinalized ==
    /\ [](InTurn => (myState = "Idle" => pending = <<>>))
    /\ [](InTurn => Len(pending) <= 1)
    /\ [](InTurn => (pending # <<>> => (pendingReq = reqCount /\ srvOut # <<>>)))
    /\ [][C40_Step]_vars

\* Two commands were sent in turn on a MySQL connection, each after the
\* response of the one before was complete; the second event was emitted at
\* the terminator of the second response, the state is Idle and no event is
\* pending.
C40_Witness ==
    /\ InTurn
    /\ reqCount = 2
    /\ emitCount = 2
    /\ srvOut = <<>>
    /\ myState = "Idle"
    /\ pending = <<>>
    /\ lastEmit # <<>>
    /\ lastEmit[1].req = 2
    /\ lastEmit[1].answered
    /\ lastReply # <<>>
    /\ lastReply[1].req = 2
    /\ lastReply[1].out.kind = "EOF"

\* ------------------------------------------------ properties: normalizer

\* C21: Normalize is idempotent: Normalize(Normalize(s)) = Normalize(s), for
\* every input s, unterminated string literals and inputs of whitespace only
\* included.
C21_Idempotent == nzAgain # <<>> => nzAgain = nzOut

\* Normalize was applied twice to the unterminated literal 't followed by a
\* blank: the first call changed it, the second changed nothing more.
C21_Witness ==
    /\ nzIn = <<<<"1", " ", "'", "t">>>>
    /\ nzOut = <<<<"?", " ", "'", "?", "'">>>>
    /\ nzAgain = nzOut

\* The elements of the sequence s.
Elems(s) == {s[i] : i \in 1..Len(s)}

\* The sequence t occurs in s at position i.
OccursAt(t, s, i) == i + Len(t) - 1 <= Len(s) /\ SubSeq(s, i, i + Len(t) - 1) = t

\* The positions of s where a parameter placeholder starts: a dollar sign
\* followed by a digit, outside every string literal (an even number of quotes
\* precedes it).
ParamStarts(s) ==
    {i \in 1..Len(s) :
        /\ s[i] = "$"
        /\ i + 1 <= Len(s)
        /\ isDigit(s[i + 1])
        /\ Cardinality({k \in 1..(i - 1) : s[k] = "'"}) % 2 = 0}

RECURSIVE DigitsFrom(_, _)
\* The digits of s from position i on.
DigitsFrom(s, i) ==
    IF i <= Len(s) /\ isDigit(s[i]) THEN <<s[i]>> \o DigitsFrom(s, i + 1) ELSE <<>>

\* The placeholder token of s that starts at i.
ParamAt(s, i) == <<"$">> \o DigitsFrom(s, i + 1)

\* The token t stands in s: it occurs, and no digit follows it.
HasToken(t, s) ==
    \E k \in 1..Len(s) :
        OccursAt(t, s, k) /\ (k + Len(t) > Len(s) \/ ~isDigit(s[k + Len(t)]))

\* C22: for every parameter placeholder token $n of the input (outside string
\* literals), the output of Normalize contains the same token $n.
C22_PlaceholdersKept ==
    nzOut # <<>> => \A i \in ParamStarts(nzIn[1]) : HasToken(ParamAt(nzIn[1], i), nzOut[1])

\* Normalize kept $1 next to a number it replaced.
C22_Witness ==
    /\ nzIn = <<<<"1", " ", "$", "1">>>>
    /\ nzOut = <<<<"?", " ", "$", "1">>>>

\* The characters that delimit a standalone number.
BoundaryChars ==
    {" ", "\t", "\n", "\r", ",", "(", ")", "=", "<", ">", "+", "-", "*", "/", ";"}

\* The characters that may stand next to a numeric literal in a SQL
\* expression: the boundary characters and the modulo operator.
SqlDelimiters == BoundaryChars \cup {"%"}

\* Every quote of the statement belongs to a string literal slot.
QuotesInLiterals(skel) == "'" \notin Elems(skel)

\* Every numeric literal slot of skel is delimited, on both sides, by an end of
\* the statement or by a character of delims.
NumbersDelimitedBy(skel, delims) ==
    \A i \in 1..Len(skel) :
        skel[i] = "NUM" =>
            /\ i = 1 \/ skel[i - 1] \in delims
            /\ i = Len(skel) \/ skel[i + 1] \in delims

\* C23 as stated: two SQL statements that differ only in the values of their
\* string and numeric literals normalize to the same output.
C23_Original ==
    (nzOther # <<>> /\ QuotesInLiterals(nzSkel) /\ NumbersDelimitedBy(nzSkel, SqlDelimiters))
        => nzOtherOut = nzOut

\* C23: two statements that differ only in the values of their single-quoted
\* string literals and of their standalone numeric literals (digit runs
\* delimited on both sides by an end of the statement or a boundary character)
\* normalize to the same output.
C23_SameTemplate ==
    (nzOther # <<>> /\ QuotesInLiterals(nzSkel) /\ NumbersDelimitedBy(nzSkel, BoundaryChars))
        => nzOtherOut = nzOut

\* 'a' 1 and '1'' ' 2.5 both normalize to '?' ?.
C23_Witness ==
    /\ nzSkel = <<"STR", " ", "NUM">>
    /\ nzIn = <<<<"'", "a", "'", " ", "1">>>>
    /\ nzOther = <<<<"'", "1", "'", "'", " ", "'", " ", "2", ".", "5">>>>
    /\ nzOut = <<<<"'", "?", "'", " ", "?">>>>
    /\ nzOtherOut = nzOut

\* A run of digits starts at position i of s.
IsRunStart(s, i) == isDigit(s[i]) /\ (i = 1 \/ (~isDigit(s[i - 1]) /\ s[i - 1] # "."))

RECURSIVE RunEnd(_, _)
\* The last position of the run of digits and decimal points that holds i.
RunEnd(s, i) ==
    IF i + 1 <= Len(s) /\ (isDigit(s[i + 1]) \/ s[i + 1] = ".") THEN RunEnd(s, i + 1) ELSE i

\* The run that starts at i starts at the beginning of the string or after a
\* boundary character, and ends at the end of the string or before one.
RunStandsAlone(s, i) ==
    /\ i = 1 \/ s[i - 1] \in BoundaryChars
    /\ RunEnd(s, i) = Len(s) \/ s[RunEnd(s, i) + 1] \in BoundaryChars

RECURSIVE ReplaceRuns(_, _)
\* s from position i on, every run that stands alone replaced by one "?".
ReplaceRuns(s, i) ==
    IF i > Len(s) THEN <<>>
    ELSE IF IsRunStart(s, i) /\ RunStandsAlone(s, i)
         THEN <<"?">> \o ReplaceRuns(s, RunEnd(s, i) + 1)
         ELSE <<s[i]>> \o ReplaceRuns(s, i + 1)

Blanks == {" ", "\t", "\n", "\r"}

RECURSIVE Collapse(_, _)
\* s with every whitespace run that follows a word replaced by one space; the
\* flag tells that a word precedes s.
Collapse(s, word) ==
    IF s = <<>> THEN <<>>
    ELSE IF Head(s) \in Blanks
         THEN IF word /\ \E k \in 1..Len(s) : s[k] \notin Blanks
              THEN <<" ">> \o Collapse(Tail(s), FALSE)
              ELSE Collapse(Tail(s), word)
         ELSE <<Head(s)>> \o Collapse(Tail(s), TRUE)

\* C24: outside string literals, Normalize replaces a run of digits (with its
\* decimal points) by one "?" exactly when the run starts at the beginning of
\* the string or after a boundary character and ends at the end of the string
\* or before a boundary character; every other character, a digit inside an
\* identifier and a minus sign before a number included, is kept.
C24_StandaloneRunsReplaced ==
    (nzOut # <<>> /\ "'" \notin Elems(nzIn[1]))
        => nzOut[1] = Collapse(ReplaceRuns(nzIn[1], 1), FALSE)

\* t1-1 becomes t1-?: the digit of the identifier is kept, the number after the
\* minus sign is replaced, and the minus sign stays.
C24_Witness ==
    /\ nzIn = <<<<"t", "1", "-", "1">>>>
    /\ nzOut = <<<<"t", "1", "-", "?">>>>

\* C25: the output of Normalize holds no tab, newline or carriage return and
\* no two consecutive spaces, neither starts nor ends with a space, and is
\* empty for the empty input.
C25_WhitespaceCanonical ==
    nzOut # <<>> =>
        LET in == nzIn[1]
            out == nzOut[1]
        IN  /\ Elems(out) \cap {"\t", "\n", "\r"} = {}
            /\ \A k \in 1..(Len(out) - 1) : ~(out[k] = " " /\ out[k + 1] = " ")
            /\ out # <<>> => (out[1] # " " /\ out[Len(out)] # " ")
            /\ in = <<>> => out = <<>>

\* A tab before and a newline and a space after the word: only the word is
\* left.
C25_Witness ==
    /\ nzIn = <<<<"\t", "t", "\n", " ">>>>
    /\ nzOut = <<<<"t">>>>

\* ---------------------------------------------------------- MySQL handshake

clientSSL == 2048
clientDeprecateEOF == 16777216

RECURSIVE BitOr(_, _)
\* a | b.
BitOr(a, b) ==
    IF a = 0 /\ b = 0 THEN 0
    ELSE (IF a % 2 = 1 \/ b % 2 = 1 THEN 1 ELSE 0) + 2 * BitOr(a \div 2, b \div 2)

RECURSIVE AndNot(_, _)
\* a &^ b.
AndNot(a, b) ==
    IF a = 0 THEN 0
    ELSE (IF a % 2 = 1 /\ b % 2 = 0 THEN 1 ELSE 0) + 2 * AndNot(a \div 2, b \div 2)

\* uint16(n).
Uint16(n) == n % 65536

RECURSIVE IndexByte(_, _)
\* bytes.IndexByte: the index of the first c in s, or -1.
IndexByte(s, c) ==
    IF s = <<>> THEN -1
    ELSE IF s[1] = c THEN 0
    ELSE LET r == IndexByte(Tail(s), c) IN IF r < 0 THEN -1 ELSE r + 1

\* s after a write of the bytes b into s[off : off+len(b)].
PutAt(s, off, b) ==
    [i \in 1..Len(s) |-> IF i > off /\ i <= off + Len(b) THEN b[i - off] ELSE s[i]]

\* clearCapabilityBits that takes the server version to be one byte long.
clearCapabilityBitsFixedOffset(pkt, bits) ==
    LET payload == Slice(pkt, 4, Len(pkt))
        base == 3
        lowerOff == base + 13
        upperOff == base + 18
        lower == AndNot(LittleEndian(Slice(payload, lowerOff, lowerOff + 2)), Uint16(bits % 65536))
        withLower == PutAt(payload, lowerOff, PutLittleEndian(lower, 2))
        upper == AndNot(LittleEndian(Slice(withLower, upperOff, upperOff + 2)), Uint16(bits \div 65536))
        withUpper == PutAt(withLower, upperOff, PutLittleEndian(upper, 2))
    IN  IF lowerOff + 2 > Len(payload) THEN pkt
        ELSE IF upperOff + 2 > Len(payload) THEN Slice(pkt, 0, 4) \o withLower
        ELSE Slice(pkt, 0, 4) \o withUpper

\* clearCapabilityBits: the greeting packet pkt with the capability bits
\* cleared, the lower 16 after the 13 bytes that follow the version string and
\* the upper 16 after 18.
clearCapabilityBits(pkt, bits) ==
    LET payload == Slice(pkt, 4, Len(pkt))
        nulIdx == IndexByte(Slice(payload, 1, Len(payload)), 0)
        base == 1 + nulIdx + 1
        lowerOff == base + 13
        upperOff == base + 18
        lower == AndNot(LittleEndian(Slice(payload, lowerOff, lowerOff + 2)), Uint16(bits % 65536))
        withLower == PutAt(payload, lowerOff, PutLittleEndian(lower, 2))
        upper == AndNot(LittleEndian(Slice(withLower, upperOff, upperOff + 2)), Uint16(bits \div 65536))
        withUpper == PutAt(withLower, upperOff, PutLittleEndian(upper, 2))
    IN  IF nulIdx < 0 THEN pkt
        ELSE IF lowerOff + 2 > Len(payload) THEN pkt
        ELSE IF upperOff + 2 > Len(payload) THEN Slice(pkt, 0, 4) \o withLower
        ELSE Slice(pkt, 0, 4) \o withUpper

\* clearClientCapabilityBits: the handshake response pkt with the capability
\* bits cleared in the first four bytes of its payload. The 32-bit word is
\* handled as its two 16-bit halves, which is what &^ does to it.
clearClientCapabilityBits(pkt, bits) ==
    LET payload == Slice(pkt, 4, Len(pkt))
        low == AndNot(LittleEndian(Slice(payload, 0, 2)), bits % 65536)
        high == AndNot(LittleEndian(Slice(payload, 2, 4)), bits \div 65536)
    IN  IF Len(payload) < 4 THEN pkt
        ELSE Slice(pkt, 0, 4)
             \o PutAt(payload, 0, PutLittleEndian(low, 2) \o PutLittleEndian(high, 2))

\* A packet on the wire: three bytes of payload length, the sequence number,
\* the payload.
Packet(seqNo, payload) == PutLittleEndian(Len(payload), 3) \o <<seqNo>> \o payload

MaxAuthRounds == 2

\* The server versions of the greetings: strings of length 0, 1 and 2.
ServerVersions == {<<>>, <<56>>, <<56, 46>>}
\* The halves of the capability word: no bit, bits 8 and 11 only, every bit but
\* these two, every bit.
CapHalves == {0, 2304, 63231, 65535}
\* A greeting is whole, or ends before the upper capability flags.
GreetingShapes == {"whole", "short"}
GreetingFields == [version : ServerVersions, lower : CapHalves, upper : CapHalves,
                   shape : GreetingShapes]

\* The HandshakeV10 packet of the fields g.
GreetingPacket(g) ==
    Packet(0,
        <<10>> \o g.version \o <<0>>
        \o <<7, 0, 0, 0>>
        \o <<255, 0, 8, 1, 255, 0, 8, 1>>
        \o <<0>>
        \o PutLittleEndian(g.lower, 2)
        \o <<255>>
        \o <<255, 255>>
        \o (IF g.shape = "whole"
             THEN PutLittleEndian(g.upper, 2) \o <<21, 0, 255, 8, 1, 0>>
             ELSE <<>>))

Greetings == {GreetingPacket(g) : g \in GreetingFields}

\* A handshake response carries the capability word, or is too short for it.
ResponseShapes == {"whole", "short"}
ResponseFields == [low : {0, 65535}, high : CapHalves, shape : ResponseShapes]

\* The HandshakeResponse41 packet of the fields r.
ResponsePacket(r) ==
    Packet(1,
        IF r.shape = "whole"
        THEN PutLittleEndian(r.low, 2) \o PutLittleEndian(r.high, 2) \o <<255, 255, 255, 0, 1, 116, 0>>
        ELSE <<255, 1, 255>>)

HandshakeResponses == {ResponsePacket(r) : r \in ResponseFields}

\* The packets of the authentication phase: OK, ERR, AuthMoreData with fast
\* authentication success, AuthMoreData asking for full authentication, and
\* AuthSwitchRequest.
AuthOK == Packet(2, <<iOK, 0, 0, 2, 0>>)
AuthERR == Packet(2, <<iERR, 21, 4>>)
AuthFastSuccess == Packet(2, <<1, 3>>)
AuthFull == Packet(2, <<1, 4>>)
AuthSwitch == Packet(2, <<iEOF, 116, 0>>)
AuthPackets == {AuthOK, AuthERR, AuthFastSuccess, AuthFull, AuthSwitch}
AuthResponses == {Packet(3, <<255, 1>>)}

\* A MySQL connection was accepted and relayStartup begins.
HsInit ==
    /\ hsPc = "greeting"
    /\ hsGreeting = <<>>
    /\ hsResponse = <<>>
    /\ hsToClient = <<>>
    /\ hsToUpstream = <<>>
    /\ hsRounds = 0

\* relayStartup, step 1: the greeting is read, cleared of clientSSL and
\* clientDeprecateEOF, and written to the client.
HsGreeting(pkt) ==
    /\ hsPc = "greeting"
    /\ hsGreeting' = <<pkt>>
    /\ hsToClient' = Append(hsToClient,
                             clearCapabilityBits(pkt, BitOr(clientSSL, clientDeprecateEOF)))
    /\ hsPc' = "response"
    /\ UNCHANGED <<hsResponse, hsToUpstream, hsRounds, zvars, nvars, svars, rvars>>

\* relayStartup, step 2: the handshake response is read, cleared of
\* clientDeprecateEOF, and written upstream.
HsResponse(pkt) ==
    /\ hsPc = "response"
    /\ hsResponse' = <<pkt>>
    /\ hsToUpstream' = Append(hsToUpstream, clearClientCapabilityBits(pkt, clientDeprecateEOF))
    /\ hsPc' = "auth"
    /\ UNCHANGED <<hsGreeting, hsToClient, hsRounds, zvars, nvars, svars, rvars>>

\* relayStartup, step 3: an authentication packet is relayed to the client; OK
\* ends the startup, ERR fails it, a fast authentication success is followed
\* by another server packet, anything else by a client response.
HsAuth(pkt) ==
    /\ hsPc = "auth"
    /\ payloadByte(Slice(pkt, 4, Len(pkt))) \in {iOK, iERR} \/ hsRounds < MaxAuthRounds
    /\ hsToClient' = Append(hsToClient, pkt)
    /\ LET payload == Slice(pkt, 4, Len(pkt))
           first == payloadByte(payload)
       IN  IF first = iOK THEN hsPc' = "done" /\ UNCHANGED hsRounds
           ELSE IF first = iERR THEN hsPc' = "failed" /\ UNCHANGED hsRounds
           ELSE IF first = 1 /\ Len(payload) >= 2 /\ payload[2] = 3
                THEN hsPc' = "auth" /\ hsRounds' = hsRounds + 1
                ELSE hsPc' = "authResponse" /\ hsRounds' = hsRounds + 1
    /\ UNCHANGED <<hsGreeting, hsResponse, hsToUpstream, zvars, nvars, svars, rvars>>

\* relayStartup, step 3: the client response to an authentication packet is
\* forwarded upstream.
HsAuthResponse(pkt) ==
    /\ hsPc = "authResponse"
    /\ hsToUpstream' = Append(hsToUpstream, pkt)
    /\ hsPc' = "auth"
    /\ UNCHANGED <<hsGreeting, hsResponse, hsToClient, hsRounds, zvars, nvars, svars, rvars>>

\* A read or a write of relayStartup fails: it returns the error.
HsError ==
    /\ hsPc \in {"greeting", "response", "auth", "authResponse"}
    /\ hsPc' = "failed"
    /\ UNCHANGED <<hsGreeting, hsResponse, hsToClient, hsToUpstream, hsRounds, zvars, nvars, svars, rvars>>

HsReadGreeting == \E pkt \in Greetings : HsGreeting(pkt)
HsReadResponse == \E pkt \in HandshakeResponses : HsResponse(pkt)
HsRelayAuth == \E pkt \in AuthPackets : HsAuth(pkt)
HsRelayAuthResponse == \E pkt \in AuthResponses : HsAuthResponse(pkt)

HsNext == HsReadGreeting \/ HsReadResponse \/ HsRelayAuth \/ HsRelayAuthResponse \/ HsError

InitHandshake == HsInit /\ SuIdle /\ RlIdle /\ NormIdle /\ RunIdle /\ ConnIdle /\ BrokerInit /\ DetIdle

SpecHandshake == InitHandshake /\ [][HsNext]_vars


\* -------------------------------------------------------- PostgreSQL startup

sslRequestCode == 80877103
gssEncRequestCode == 80877104
authTypeOk == 0
authTypeSASLFinal == 12

RECURSIVE BigEndian(_)
\* binary.BigEndian.Uint32 of the bytes s.
BigEndian(s) == IF s = <<>> THEN 0 ELSE s[Len(s)] + 256 * BigEndian(SubSeq(s, 1, Len(s) - 1))

RECURSIVE PutBigEndian(_, _)
\* The width bytes of n, most significant first.
PutBigEndian(n, width) ==
    IF width = 0 THEN <<>> ELSE PutBigEndian(n \div 256, width - 1) \o <<n % 256>>

\* The startup loop that declines the SSLRequest only.
declinesSSLOnly(raw) ==
    Len(raw) = 8 /\ BigEndian(Slice(raw, 4, 8)) = sslRequestCode

\* The test of the startup loop: raw is an 8-byte message with the SSLRequest
\* or the GSSENCRequest code.
declines(raw) ==
    Len(raw) = 8 /\ BigEndian(Slice(raw, 4, 8)) \in {sslRequestCode, gssEncRequestCode}

\* A startup-format message: four bytes of length, itself included, and the
\* payload.
StartupRaw(payload) == PutBigEndian(4 + Len(payload), 4) \o payload

\* A regular message: the type byte, four bytes of length, the payload.
MessageRaw(type, payload) == <<type>> \o PutBigEndian(4 + Len(payload), 4) \o payload

\* The startup messages of a client: SSLRequest, GSSENCRequest, an 8-byte
\* message with another code, a StartupMessage of protocol 3.0 with and
\* without a parameter, a 12-byte message that begins like an SSLRequest, and
\* CancelRequest.
StartupMessages ==
    { StartupRaw(PutBigEndian(sslRequestCode, 4)),
      StartupRaw(PutBigEndian(gssEncRequestCode, 4)),
      StartupRaw(PutBigEndian(80877105, 4)),
      StartupRaw(<<0, 3, 0, 0, 0>>),
      StartupRaw(<<0, 3, 0, 0, 117, 0, 116, 0, 0>>),
      StartupRaw(PutBigEndian(sslRequestCode, 4) \o <<0, 0, 0, 0>>),
      StartupRaw(PutBigEndian(80877102, 4) \o <<0, 0, 0, 7, 0, 0, 0, 9>>) }

\* The messages of the server during authentication: AuthenticationOk,
\* AuthenticationCleartextPassword, AuthenticationSASLFinal, an 'R' too short
\* for a type, ParameterStatus, ReadyForQuery and ErrorResponse.
AuthMessages ==
    { MessageRaw(82, PutBigEndian(authTypeOk, 4)),
      MessageRaw(82, PutBigEndian(3, 4)),
      MessageRaw(82, PutBigEndian(authTypeSASLFinal, 4) \o <<118>>),
      MessageRaw(82, <<>>),
      MessageRaw(83, <<116, 0, 49, 0>>),
      MessageRaw(90, <<73>>),
      MessageRaw(69, <<0>>) }

\* The answer of a client to an authentication request: PasswordMessage.
AuthAnswers == {MessageRaw(112, <<112, 0>>)}

MaxStartupRounds == 3

\* A PostgreSQL connection was accepted and relayStartup begins.
SuInit ==
    /\ suPc = "startup"
    /\ suFromClient = <<>>
    /\ suFromUpstream = <<>>
    /\ suToClient = <<>>
    /\ suToUpstream = <<>>
    /\ suRounds = 0

\* relayStartup, first loop: a startup message is read; an SSLRequest or
\* GSSENCRequest is answered 'N' and the loop goes on, any other message is
\* written upstream and ends the loop.
SuStartup(raw) ==
    /\ suPc = "startup"
    /\ suFromClient' = Append(suFromClient, raw)
    /\ UNCHANGED suFromUpstream
    /\ IF declines(raw)
       THEN /\ suRounds < MaxStartupRounds
            /\ suToClient' = Append(suToClient, <<78>>)
            /\ suRounds' = suRounds + 1
            /\ UNCHANGED <<suPc, suToUpstream>>
       ELSE /\ suToUpstream' = Append(suToUpstream, raw)
            /\ suPc' = "auth"
            /\ UNCHANGED <<suToClient, suRounds>>
    /\ UNCHANGED <<zvars, nvars, hvars, rvars>>

\* The authentication request is too short for a type, or its type is not
\* AuthenticationOk: the test that treats AuthenticationSASLFinal as a request.
needsResponseUnlessOk(msg) ==
    /\ msg[1] = 82
    /\ Len(msg) >= 9
    /\ BigEndian(Slice(msg, 5, 9)) # authTypeOk

\* The test of the second loop: msg is an authentication message that the
\* client has to answer (any type but AuthenticationOk and
\* AuthenticationSASLFinal).
needsResponse(msg) ==
    /\ msg[1] = 82
    /\ Len(msg) >= 9
    /\ BigEndian(Slice(msg, 5, 9)) \notin {authTypeOk, authTypeSASLFinal}

\* relayStartup, second loop: a server message is written to the client;
\* ReadyForQuery ends the startup, ErrorResponse fails it, an authentication
\* request other than Ok and SASLFinal is followed by a client answer.
SuAuth(msg) ==
    /\ suPc = "auth"
    /\ msg[1] \in {90, 69} \/ suRounds < MaxStartupRounds
    /\ suFromUpstream' = Append(suFromUpstream, msg)
    /\ suToClient' = Append(suToClient, msg)
    /\ IF msg[1] = 90 THEN suPc' = "done" /\ UNCHANGED suRounds
       ELSE IF msg[1] = 69 THEN suPc' = "failed" /\ UNCHANGED suRounds
       ELSE IF needsResponse(msg)
            THEN suPc' = "authResponse" /\ suRounds' = suRounds + 1
            ELSE suPc' = "auth" /\ suRounds' = suRounds + 1
    /\ UNCHANGED <<suFromClient, suToUpstream, zvars, nvars, hvars, rvars>>

\* relayStartup, second loop: the answer of the client is written upstream.
SuAuthResponse(resp) ==
    /\ suPc = "authResponse"
    /\ suToUpstream' = Append(suToUpstream, resp)
    /\ suPc' = "auth"
    /\ UNCHANGED <<suFromClient, suFromUpstream, suToClient, suRounds, zvars, nvars, hvars,
                   rvars>>

\* A read of relayStartup fails (the peer closed, or the length of a startup
\* message is below 4): it returns the error.
SuError ==
    /\ suPc \in {"startup", "auth", "authResponse"}
    /\ suPc' = "failed"
    /\ UNCHANGED <<suFromClient, suFromUpstream, suToClient, suToUpstream, suRounds, zvars,
                   nvars, hvars, rvars>>

SuReadStartup == \E raw \in StartupMessages : SuStartup(raw)
SuRelayAuth == \E msg \in AuthMessages : SuAuth(msg)
SuRelayAuthResponse == \E resp \in AuthAnswers : SuAuthResponse(resp)

SuNext == SuReadStartup \/ SuRelayAuth \/ SuRelayAuthResponse \/ SuError

InitStartup == SuInit /\ HsIdle /\ RlIdle /\ NormIdle /\ RunIdle /\ ConnIdle /\ BrokerInit /\ DetIdle

SpecStartup == InitStartup /\ [][SuNext]_vars


\* The messages read from upstream so far that are ReadyForQuery ('Z'),
\* ErrorResponse ('E'), and authentication requests other than
\* AuthenticationOk and AuthenticationSASLFinal.
ReadyAt == {i \in DOMAIN suFromUpstream : suFromUpstream[i][1] = 90}
ErrorAt == {i \in DOMAIN suFromUpstream : suFromUpstream[i][1] = 69}
RequestAt ==
    {i \in DOMAIN suFromUpstream :
        /\ suFromUpstream[i][1] = 82
        /\ Len(suFromUpstream[i]) >= 9
        /\ SubSeq(suFromUpstream[i], 6, 9) \notin {<<0, 0, 0, 0>>, <<0, 0, 0, 12>>}}

\* What the client was sent apart from the one-byte 'N' answers.
RelayedToClient == SelectSeq(suToClient, LAMBDA m : m # <<78>>)

\* C33: startup has ended in steady state exactly when a ReadyForQuery has
\* been read from upstream, and then that message is the last one read, every
\* message read from upstream has been written to the client in order, and
\* upstream has been written the startup message and one client answer for
\* each authentication request that needs one; once an ErrorResponse has been
\* read it has been written to the client and startup has failed; no event
\* is emitted during startup or after its failure.
C33_StartupOutcome ==
    /\ suPc = "done" <=> ReadyAt # {}
    /\ suPc = "done" =>
           /\ ReadyAt = {Len(suFromUpstream)}
           /\ ErrorAt = {}
           /\ Len(suToUpstream) = 1 + Cardinality(RequestAt)
    /\ suPc \in {"auth", "authResponse", "done", "failed"} => RelayedToClient = suFromUpstream
    /\ ErrorAt # {} =>
           /\ suPc = "failed"
           /\ ErrorAt = {Len(suFromUpstream)}
           /\ suToClient[Len(suToClient)] = suFromUpstream[Len(suFromUpstream)]
    /\ suPc # "idle" => emitCount = 0 /\ events = <<>>

\* Steady state was reached after a password request that the client
\* answered and an AuthenticationOk.
C33_Witness ==
    /\ suPc = "done"
    /\ Cardinality(RequestAt) = 1
    /\ Len(suFromUpstream) = 3
    /\ Len(suToUpstream) = 2


\* ------------------------------------------------------------------- relay

\* The packets and closes that the peers of one connection send.
MaxPackets == 1

\* The peer a relay direction reads from, and the one it writes to.
Source(d) == IF d = "clientToUpstream" THEN "client" ELSE "upstream"
Target(d) == IF d = "clientToUpstream" THEN "upstream" ELSE "client"

\* The listener runs, no connection is accepted yet.
RlInit ==
    /\ ctxDone = FALSE
    /\ listener = "open"
    /\ rlPc = [c \in Conns |-> "none"]
    /\ rlLoop = [c \in Conns |-> [d \in Dirs |-> "off"]]
    /\ rlClosed = [c \in Conns |-> FALSE]
    /\ rlEOF = [c \in Conns |-> [p \in Peers |-> FALSE]]
    /\ rlInbox = [c \in Conns |-> [p \in Peers |-> 0]]
    /\ rlSent = [c \in Conns |-> 0]
    /\ rlErrCh = [c \in Conns |-> 0]
    /\ rlQuiet = [c \in Conns |-> FALSE]

\* Both loops of c wait in a read with nothing to read.
BothWaiting(c) ==
    /\ rlPc[c] = "first"
    /\ \A d \in Dirs : rlLoop[c][d] = "read"
    /\ \A p \in Peers : rlInbox[c][p] = 0 /\ ~rlEOF[c][p]
    /\ ~rlClosed[c]

\* The process receives SIGINT or SIGTERM: the context is cancelled.
Cancel ==
    /\ ~ctxDone
    /\ ctxDone' = TRUE
    /\ rlQuiet' = [c \in Conns |-> BothWaiting(c)]
    /\ UNCHANGED <<listener, rlPc, rlLoop, rlClosed, rlEOF, rlInbox, rlSent, rlErrCh>>
    /\ UNCHANGED <<zvars, nvars, hvars, svars>>

\* The listener accepts a connection, dials upstream and calls relay.
Accept(c) ==
    /\ listener = "open"
    /\ rlPc[c] = "none"
    /\ rlPc' = [rlPc EXCEPT ![c] = "startup"]
    /\ UNCHANGED <<ctxDone, listener, rlLoop, rlClosed, rlEOF, rlInbox, rlSent, rlErrCh, rlQuiet>>
    /\ UNCHANGED <<zvars, nvars, hvars, svars>>

\* On cancellation the listener is stopped, and every connection in flight
\* sees its sockets closed.
ListenerStop ==
    /\ ctxDone
    /\ listener = "open"
    /\ listener' = "stopped"
    /\ rlClosed' = [c \in Conns |-> rlClosed[c] \/ rlPc[c] \notin {"none", "returned"}]
    /\ UNCHANGED <<ctxDone, rlPc, rlLoop, rlEOF, rlInbox, rlSent, rlErrCh, rlQuiet>>
    /\ UNCHANGED <<zvars, nvars, hvars, svars>>

\* relay: relayStartup returns nil and the two loops are started.
StartupDone(c) ==
    /\ rlPc[c] = "startup"
    /\ ~rlClosed[c]
    /\ \A p \in Peers : ~rlEOF[c][p]
    /\ rlPc' = [rlPc EXCEPT ![c] = "first"]
    /\ rlLoop' = [rlLoop EXCEPT ![c] = [d \in Dirs |-> "check"]]
    /\ UNCHANGED <<ctxDone, listener, rlClosed, rlEOF, rlInbox, rlSent, rlErrCh, rlQuiet>>
    /\ UNCHANGED <<zvars, nvars, hvars, svars>>

\* relay: a read or a write of relayStartup fails on a closed socket or a
\* closed peer, and relay returns the error.
StartupClosed(c) ==
    /\ rlPc[c] = "startup"
    /\ rlClosed[c] \/ \E p \in Peers : rlEOF[c][p]
    /\ rlPc' = [rlPc EXCEPT ![c] = "returned"]
    /\ UNCHANGED <<ctxDone, listener, rlLoop, rlClosed, rlEOF, rlInbox, rlSent, rlErrCh, rlQuiet>>
    /\ UNCHANGED <<zvars, nvars, hvars, svars>>

\* relay: the server refuses the authentication, and relay returns the error.
StartupRefused(c) ==
    /\ rlPc[c] = "startup"
    /\ ~rlClosed[c]
    /\ rlPc' = [rlPc EXCEPT ![c] = "returned"]
    /\ UNCHANGED <<ctxDone, listener, rlLoop, rlClosed, rlEOF, rlInbox, rlSent, rlErrCh, rlQuiet>>
    /\ UNCHANGED <<zvars, nvars, hvars, svars>>

\* The capacity of errCh.
ErrChCap == 2

\* A relay loop returns: its result goes into errCh once errCh has room.
LoopReturn(c, d) ==
    /\ rlErrCh[c] < ErrChCap
    /\ rlLoop' = [rlLoop EXCEPT ![c][d] = "done"]
    /\ rlErrCh' = [rlErrCh EXCEPT ![c] = @ + 1]

\* A relay loop, top of an iteration: it returns when the context is
\* cancelled, and reads otherwise.
LoopCheck(c, d) ==
    /\ rlLoop[c][d] = "check"
    /\ IF ctxDone
       THEN LoopReturn(c, d)
       ELSE rlLoop' = [rlLoop EXCEPT ![c][d] = "read"] /\ UNCHANGED rlErrCh
    /\ UNCHANGED <<ctxDone, listener, rlPc, rlClosed, rlEOF, rlInbox, rlSent, rlQuiet>>
    /\ UNCHANGED <<zvars, nvars, hvars, svars>>

\* The read that returns only when a packet arrives.
LoopReadPacketOnly(c, d) ==
    /\ rlLoop[c][d] = "read"
    /\ rlInbox[c][Source(d)] > 0
    /\ rlInbox' = [rlInbox EXCEPT ![c][Source(d)] = @ - 1]
    /\ rlLoop' = [rlLoop EXCEPT ![c][d] = "write"]
    /\ UNCHANGED rlErrCh
    /\ UNCHANGED <<ctxDone, listener, rlPc, rlClosed, rlEOF, rlSent, rlQuiet>>
    /\ UNCHANGED <<zvars, nvars, hvars, svars>>

\* A relay loop, the read: it waits until the socket is closed, the peer has
\* closed (the loop returns) or a packet is there (the loop goes on with it).
LoopRead(c, d) ==
    /\ rlLoop[c][d] = "read"
    /\ IF rlClosed[c]
       THEN LoopReturn(c, d) /\ UNCHANGED rlInbox
       ELSE IF rlInbox[c][Source(d)] > 0
       THEN /\ rlInbox' = [rlInbox EXCEPT ![c][Source(d)] = @ - 1]
            /\ rlLoop' = [rlLoop EXCEPT ![c][d] = "write"]
            /\ UNCHANGED rlErrCh
       ELSE /\ rlEOF[c][Source(d)]
            /\ LoopReturn(c, d)
            /\ UNCHANGED rlInbox
    /\ UNCHANGED <<ctxDone, listener, rlPc, rlClosed, rlEOF, rlSent, rlQuiet>>
    /\ UNCHANGED <<zvars, nvars, hvars, svars>>

\* A relay loop, capture and write: the loop returns when the write fails (the
\* socket is closed, or the peer is gone), and starts over otherwise.
LoopWrite(c, d) ==
    /\ rlLoop[c][d] = "write"
    /\ IF rlClosed[c] \/ rlEOF[c][Target(d)]
       THEN LoopReturn(c, d)
       ELSE rlLoop' = [rlLoop EXCEPT ![c][d] = "check"] /\ UNCHANGED rlErrCh
    /\ UNCHANGED <<ctxDone, listener, rlPc, rlClosed, rlEOF, rlInbox, rlSent, rlQuiet>>
    /\ UNCHANGED <<zvars, nvars, hvars, svars>>

\* relay that receives the first result and leaves the sockets open.
RelayFirstNoClose(c) ==
    /\ rlPc[c] = "first"
    /\ rlErrCh[c] > 0
    /\ rlErrCh' = [rlErrCh EXCEPT ![c] = @ - 1]
    /\ rlPc' = [rlPc EXCEPT ![c] = "second"]
    /\ UNCHANGED <<ctxDone, listener, rlLoop, rlClosed, rlEOF, rlInbox, rlSent, rlQuiet>>
    /\ UNCHANGED <<zvars, nvars, hvars, svars>>

\* relay: the first result is received, and both sockets are closed.
RelayFirst(c) ==
    /\ rlPc[c] = "first"
    /\ rlErrCh[c] > 0
    /\ rlErrCh' = [rlErrCh EXCEPT ![c] = @ - 1]
    /\ rlClosed' = [rlClosed EXCEPT ![c] = TRUE]
    /\ rlPc' = [rlPc EXCEPT ![c] = "second"]
    /\ UNCHANGED <<ctxDone, listener, rlLoop, rlEOF, rlInbox, rlSent, rlQuiet>>
    /\ UNCHANGED <<zvars, nvars, hvars, svars>>

\* relay: the second result is received, and relay returns.
RelaySecond(c) ==
    /\ rlPc[c] = "second"
    /\ rlErrCh[c] > 0
    /\ rlErrCh' = [rlErrCh EXCEPT ![c] = @ - 1]
    /\ rlPc' = [rlPc EXCEPT ![c] = "returned"]
    /\ UNCHANGED <<ctxDone, listener, rlLoop, rlClosed, rlEOF, rlInbox, rlSent, rlQuiet>>
    /\ UNCHANGED <<zvars, nvars, hvars, svars>>

\* A peer of c sends a packet.
PeerSend(c, p) ==
    /\ rlPc[c] = "first"
    /\ ~rlEOF[c][p]
    /\ rlSent[c] < MaxPackets
    /\ rlInbox[c][p] = 0
    /\ rlInbox' = [rlInbox EXCEPT ![c][p] = 1]
    /\ rlSent' = [rlSent EXCEPT ![c] = @ + 1]
    /\ rlQuiet' = [rlQuiet EXCEPT ![c] = FALSE]
    /\ UNCHANGED <<ctxDone, listener, rlPc, rlLoop, rlClosed, rlEOF, rlErrCh>>
    /\ UNCHANGED <<zvars, nvars, hvars, svars>>

\* A peer of c closes its end of the connection.
PeerClose(c, p) ==
    /\ rlPc[c] \in {"startup", "first"}
    /\ ~rlEOF[c][p]
    /\ rlSent[c] < MaxPackets
    /\ rlEOF' = [rlEOF EXCEPT ![c][p] = TRUE]
    /\ rlSent' = [rlSent EXCEPT ![c] = @ + 1]
    /\ rlQuiet' = [rlQuiet EXCEPT ![c] = FALSE]
    /\ UNCHANGED <<ctxDone, listener, rlPc, rlLoop, rlClosed, rlInbox, rlErrCh>>
    /\ UNCHANGED <<zvars, nvars, hvars, svars>>

RlNext ==
    \/ Cancel
    \/ ListenerStop
    \/ \E c \in Conns : Accept(c)
    \/ \E c \in Conns : StartupDone(c)
    \/ \E c \in Conns : StartupClosed(c)
    \/ \E c \in Conns : StartupRefused(c)
    \/ \E c \in Conns, d \in Dirs : LoopCheck(c, d)
    \/ \E c \in Conns, d \in Dirs : LoopRead(c, d)
    \/ \E c \in Conns, d \in Dirs : LoopWrite(c, d)
    \/ \E c \in Conns : RelayFirst(c)
    \/ \E c \in Conns : RelaySecond(c)
    \/ \E c \in Conns, p \in Peers : PeerSend(c, p)
    \/ \E c \in Conns, p \in Peers : PeerClose(c, p)

InitRelay ==
    RlInit /\ HsIdle /\ SuIdle /\ NormIdle /\ RunIdle /\ ConnIdle /\ BrokerInit /\ DetIdle

SpecRelay == InitRelay /\ [][RlNext]_vars

\* Every goroutine that can take a step is scheduled: the listener reacts to
\* the cancellation, a read or write that can return does, and relay receives
\* what is in errCh. Nothing is assumed of the peers nor of the signal.
RelayFairness ==
    /\ WF_vars(ListenerStop)
    /\ \A c \in Conns : WF_vars(StartupClosed(c))
    /\ \A c \in Conns : \A d \in Dirs : WF_vars(LoopCheck(c, d))
    /\ \A c \in Conns : \A d \in Dirs : WF_vars(LoopRead(c, d))
    /\ \A c \in Conns : \A d \in Dirs : WF_vars(LoopWrite(c, d))
    /\ \A c \in Conns : WF_vars(RelayFirst(c))
    /\ \A c \in Conns : WF_vars(RelaySecond(c))

SpecRelayLive == SpecRelay /\ RelayFairness

\* ------------------------------------------------------------- relay tasks

\* The packets each relay task of a MySQL connection reads.
MaxCaptures == 2

\* The accesses of a capture call to the fields of conn: a read, a write of
\* the value v, a read that decides how the call goes on, the decrement of a
\* counter, and the Lock and Unlock of conn.mu.
Rd(f) == [op |-> "read", f |-> f, v |-> <<>>]
Wr(f, v) == [op |-> "write", f |-> f, v |-> <<v>>]
Branch(f) == [op |-> "branch", f |-> f, v |-> <<>>]
Dec(f) == [op |-> "dec", f |-> f, v |-> <<>>]
MuLock == [op |-> "lock", f |-> "mu", v |-> <<>>]
MuUnlock == [op |-> "unlock", f |-> "mu", v |-> <<>>]

\* The commands a client sends: COM_QUERY, COM_STMT_PREPARE, COM_STMT_EXECUTE,
\* COM_STMT_CLOSE and COM_PING (14).
TaskCommands == {comQuery, comStmtPrepare, comStmtExecute, comStmtClose, 14}

\* captureClientPacket of a packet with command byte cmd (and, for the
\* statement commands, a payload of five bytes or more): its accesses in
\* program order.
captureClientPacket(cmd) ==
    IF cmd = comQuery
    THEN <<Wr("lastCommand", comQuery), Wr("lastQuery", 0), Wr("state", "FirstResp"),
           Wr("activeTxID", 0), Wr("nextID", 0), MuLock, Wr("pending", 0), MuUnlock>>
    ELSE IF cmd = comStmtPrepare
    THEN <<Wr("lastCommand", comStmtPrepare), Wr("lastQuery", 0), Wr("state", "FirstResp")>>
    ELSE IF cmd = comStmtExecute
    THEN <<Wr("lastCommand", comStmtExecute), Wr("state", "FirstResp"), Wr("lastStmtID", 0),
           Rd("preparedStmts"), Wr("lastQuery", 0), Wr("activeTxID", 0), Wr("nextID", 0),
           MuLock, Wr("pending", 0), MuUnlock>>
    ELSE IF cmd = comStmtClose
    THEN <<Wr("preparedStmts", 0)>>
    ELSE <<>>

\* finalizeOK, finalizeError and finalizeResultSet: pending is taken and
\* cleared under conn.mu.
finalize == <<MuLock, Rd("pending"), Wr("pending", 0), MuUnlock>>

\* The kinds of packet upstream sends: OK (a COM_STMT_PREPARE_OK announces
\* skip definition packets), ERR, EOF and any other.
TaskPackets ==
    {[kind |-> k, skip |-> 0] : k \in {"OK", "ERR", "EOF", "other"}}
        \cup {[kind |-> "OK", skip |-> 2]}

\* captureUpstreamPacket of pkt once c.state was read as state: the accesses
\* that follow.
captureUpstreamPacket(state, pkt) ==
    IF state = "FirstResp"
    THEN IF pkt.kind = "OK" THEN <<Branch("lastCommand")>>
         ELSE IF pkt.kind = "ERR" THEN finalize \o <<Wr("state", "Idle")>>
         ELSE <<Wr("state", "ColumnDefs")>>
    ELSE IF state = "ColumnDefs"
    THEN IF pkt.kind = "EOF" THEN <<Wr("state", "RowData")>> ELSE <<>>
    ELSE IF state = "RowData"
    THEN IF pkt.kind \in {"EOF", "ERR"} THEN finalize \o <<Wr("state", "Idle")>> ELSE <<>>
    ELSE IF state = "SkipPrepare"
    THEN <<Dec("skipPackets"), Branch("skipPackets")>>
    ELSE <<>>

\* handleFirstResponse of an OK packet once c.lastCommand was read as
\* command: finalizeOK, or handleStmtPrepareOK.
handleFirstResponse(command, pkt) ==
    IF command # comStmtPrepare
    THEN finalize \o <<Wr("state", "Idle")>>
    ELSE <<Rd("lastQuery"), Wr("preparedStmts", 0), Wr("skipPackets", pkt.skip),
           Wr("state", IF pkt.skip > 0 THEN "SkipPrepare" ELSE "Idle")>>

\* The steps of the tasks leave everything but the tasks alone.
OnlyTasks == UNCHANGED <<dvars, bvars, ovars, cvars, pgvars, myvars, nvars, wvars>>

\* relayClientToUpstream: readPacket returns a packet of the client, and
\* captureClientPacket is called.
TaskReadClient(cmd) ==
    /\ tkPc["clientToUpstream"] = "read"
    /\ tkRead["clientToUpstream"] < MaxCaptures
    /\ tkRead' = [tkRead EXCEPT !["clientToUpstream"] = @ + 1]
    /\ tkPc' = [tkPc EXCEPT !["clientToUpstream"] = "capture"]
    /\ tkTodo' = [tkTodo EXCEPT !["clientToUpstream"] = captureClientPacket(cmd)]
    /\ UNCHANGED <<tkPkt, tkMu, tkState, tkCommand, tkSkip>>
    /\ OnlyTasks

\* relayUpstreamToClient: readPacket returns a packet of upstream, which
\* has been written a command before, and captureUpstreamPacket is called:
\* its first access reads c.state.
TaskReadUpstream(pkt) ==
    /\ tkPc["upstreamToClient"] = "read"
    /\ tkRead["upstreamToClient"] < MaxCaptures
    /\ tkRead["clientToUpstream"] > 0
    /\ tkRead["clientToUpstream"] > 1 \/ tkPc["clientToUpstream"] = "read"
    /\ tkRead' = [tkRead EXCEPT !["upstreamToClient"] = @ + 1]
    /\ tkPc' = [tkPc EXCEPT !["upstreamToClient"] = "capture"]
    /\ tkTodo' = [tkTodo EXCEPT !["upstreamToClient"] = <<Branch("state")>>]
    /\ tkPkt' = pkt
    /\ UNCHANGED <<tkMu, tkState, tkCommand, tkSkip>>
    /\ OnlyTasks

\* What the call of task d goes on with after the deciding read a.
Continuation(d, a) ==
    IF a.f = "state" THEN captureUpstreamPacket(tkState, tkPkt)
    ELSE IF a.f = "lastCommand" THEN handleFirstResponse(tkCommand, tkPkt)
    ELSE IF tkSkip <= 0 THEN <<Wr("state", "Idle")>> ELSE <<>>

\* Task d makes the next access of its capture call; Lock waits for conn.mu.
TaskAccess(d) ==
    /\ tkPc[d] = "capture"
    /\ tkTodo[d] # <<>>
    /\ LET a == Head(tkTodo[d])
       IN  /\ a.op = "lock" => tkMu = "free"
           /\ tkMu' = IF a.op = "lock" THEN d ELSE IF a.op = "unlock" THEN "free" ELSE tkMu
           /\ tkState' = IF a.op = "write" /\ a.f = "state" THEN a.v[1] ELSE tkState
           /\ tkCommand' = IF a.op = "write" /\ a.f = "lastCommand" THEN a.v[1] ELSE tkCommand
           /\ tkSkip' = IF a.op = "write" /\ a.f = "skipPackets" THEN a.v[1]
                        ELSE IF a.op = "dec" THEN tkSkip - 1 ELSE tkSkip
           /\ tkTodo' = [tkTodo EXCEPT ![d] =
                             IF a.op = "branch" THEN Continuation(d, a) ELSE Tail(@)]
    /\ UNCHANGED <<tkPc, tkPkt, tkRead>>
    /\ OnlyTasks

\* The capture call of task d has returned, and the packet is written to the
\* other side.
TaskWrite(d) ==
    /\ tkPc[d] = "capture"
    /\ tkTodo[d] = <<>>
    /\ tkPc' = [tkPc EXCEPT ![d] = "read"]
    /\ UNCHANGED <<tkTodo, tkPkt, tkMu, tkState, tkCommand, tkSkip, tkRead>>
    /\ OnlyTasks

TaskClientPacket == \E cmd \in TaskCommands : TaskReadClient(cmd)
TaskUpstreamPacket == \E pkt \in TaskPackets : TaskReadUpstream(pkt)
TaskClientAccess == TaskAccess("clientToUpstream")
TaskUpstreamAccess == TaskAccess("upstreamToClient")
TaskClientWrite == TaskWrite("clientToUpstream")
TaskUpstreamWrite == TaskWrite("upstreamToClient")

TaskNext ==
    \/ TaskClientPacket
    \/ TaskUpstreamPacket
    \/ TaskClientAccess
    \/ TaskUpstreamAccess
    \/ TaskClientWrite
    \/ TaskUpstreamWrite

InitTasks ==
    NewConn("mysql") /\ RunIdle /\ BrokerInit /\ DetIdle /\ NormIdle /\ WIdle

SpecTasks == InitTasks /\ [][TaskNext]_vars

\* ------------------------------------------------- properties: handshake

\* n with bit k cleared.
ClearBit(n, k) == IF (n \div (2 ^ k)) % 2 = 1 THEN n - 2 ^ k ELSE n

\* The greeting g as the client must see it: CLIENT_SSL (bit 11, in the lower
\* half) and CLIENT_DEPRECATE_EOF (bit 24, bit 8 of the upper half) cleared.
ForwardedGreeting(g) ==
    GreetingPacket([g EXCEPT !.lower = ClearBit(g.lower, 11), !.upper = ClearBit(g.upper, 8)])

\* The handshake response r as the server must see it: CLIENT_DEPRECATE_EOF
\* cleared.
ForwardedResponse(r) == ResponsePacket([r EXCEPT !.high = ClearBit(r.high, 8)])

\* C26: the greeting reaches the client with CLIENT_SSL and
\* CLIENT_DEPRECATE_EOF cleared and the handshake response reaches the server
\* with CLIENT_DEPRECATE_EOF cleared, every other bit and byte of both packets
\* as received, whatever the length of the server version string.
C26_OnlyCapabilityBits ==
    /\ \A g \in GreetingFields :
           hsGreeting = <<GreetingPacket(g)>> => hsToClient[1] = ForwardedGreeting(g)
    /\ \A r \in ResponseFields :
           hsResponse = <<ResponsePacket(r)>> => hsToUpstream[1] = ForwardedResponse(r)

\* A greeting with a two-byte version and every capability bit set, and a
\* response with every capability bit set, were both forwarded with the bits
\* cleared, and the startup ended with OK.
C26_Witness ==
    /\ hsPc = "done"
    /\ hsGreeting = <<GreetingPacket([version |-> <<56, 46>>, lower |-> 65535,
                                      upper |-> 65535, shape |-> "whole"])>>
    /\ hsToClient[1] = GreetingPacket([version |-> <<56, 46>>, lower |-> 63487,
                                       upper |-> 65279, shape |-> "whole"])
    /\ hsResponse = <<ResponsePacket([low |-> 65535, high |-> 65535, shape |-> "whole"])>>
    /\ hsToUpstream[1] = ResponsePacket([low |-> 65535, high |-> 65279, shape |-> "whole"])

\* --------------------------------------------------- properties: startup

SSLRequest == <<0, 0, 0, 8, 4, 210, 22, 47>>
GSSENCRequest == <<0, 0, 0, 8, 4, 210, 22, 48>>

\* The SSLRequest and GSSENCRequest messages among the startup messages read.
UpgradeRequests == SelectSeq(suFromClient, LAMBDA raw : raw \in {SSLRequest, GSSENCRequest})

\* The other startup messages read.
OtherStartups == SelectSeq(suFromClient, LAMBDA raw : raw \notin {SSLRequest, GSSENCRequest})

\* C27: during startup every SSLRequest and GSSENCRequest of the client is
\* answered with the one byte 'N' and not written upstream; the first other
\* startup message is written upstream as received, and nothing is written
\* upstream before it.
C27_UpgradesDeclined ==
    /\ Len(suToClient) >= Len(UpgradeRequests)
    /\ \A k \in 1..Len(UpgradeRequests) : suToClient[k] = <<78>>
    /\ \A k \in 1..Len(suToUpstream) : suToUpstream[k] \notin {SSLRequest, GSSENCRequest}
    /\ OtherStartups = <<>> => suToUpstream = <<>>
    /\ OtherStartups # <<>> =>
           /\ suToUpstream # <<>>
           /\ suToUpstream[1] = OtherStartups[1]
           /\ suFromClient = UpgradeRequests \o OtherStartups
           /\ Len(OtherStartups) = 1

\* The client asked for SSL, then for GSS encryption, was declined twice, sent
\* its StartupMessage, and the startup ended.
C27_Witness ==
    /\ suPc = "done"
    /\ suFromClient = <<SSLRequest, GSSENCRequest, <<0, 0, 0, 9, 0, 3, 0, 0, 0>>>>
    /\ SubSeq(suToClient, 1, 2) = <<<<78>>, <<78>>>>
    /\ suToUpstream[1] = <<0, 0, 0, 9, 0, 3, 0, 0, 0>>

\* ----------------------------------------------------- properties: relay

\* relay has returned for c, or was never called, and no loop of c runs.
Returned(c) ==
    /\ rlPc[c] \in {"none", "returned"}
    /\ \A d \in Dirs : rlLoop[c][d] \in {"off", "done"}

\* C28: after the process-wide context is cancelled, both relay loops of every
\* connection in flight eventually exit and relay returns, also when neither
\* the client nor the upstream sends another packet.
C28_RelayReturns == ctxDone ~> (\A c \in Conns : Returned(c))

\* The context was cancelled while both loops of c1 waited in a read, neither
\* peer sent or closed anything afterwards, and relay has returned.
C28_Witness ==
    /\ ctxDone
    /\ rlQuiet["c1"]
    /\ rlSent["c1"] = 0
    /\ Returned("c1")
    /\ rlPc["c1"] = "returned"


\* The relay loops of c that have been started and have not returned.
Running(c) == {d \in Dirs : rlLoop[c][d] \in {"check", "read", "write"}}

\* A relay loop of c has returned.
OneExited(c) == \E d \in Dirs : rlLoop[c][d] = "done"

\* C34: once a relay loop of a connection has returned, for whatever reason,
\* relay closes both sockets, the other loop returns as well, and relay
\* returns; relay has not returned while a loop still runs, the sockets are
\* closed from the moment relay has received the first result, and errCh
\* always has room for the result of every loop that still runs.
C34_BothExit ==
    /\ [](\A c \in Conns :
            /\ rlPc[c] = "returned" => Running(c) = {}
            /\ rlPc[c] = "second" => rlClosed[c] /\ OneExited(c)
            /\ rlErrCh[c] + Cardinality(Running(c)) <= ErrChCap)
    /\ \A c \in Conns :
           OneExited(c) ~>
               (rlClosed[c] /\ rlPc[c] = "returned" /\ \A d \in Dirs : rlLoop[c][d] = "done")

\* The client of c1 closed its end with no cancellation: one loop returned
\* on the end of the stream, the sockets were closed, the other loop returned
\* and relay returned with errCh empty.
C34_Witness ==
    /\ ~ctxDone
    /\ rlEOF["c1"]["client"]
    /\ ~rlEOF["c1"]["upstream"]
    /\ rlClosed["c1"]
    /\ rlPc["c1"] = "returned"
    /\ \A d \in Dirs : rlLoop["c1"][d] = "done"
    /\ rlErrCh["c1"] = 0


\* ------------------------------------------------ properties: relay tasks

\* The access task d is about to make, if it is in a capture call.
NextAccess(d) == IF tkTodo[d] = <<>> THEN <<>> ELSE <<Head(tkTodo[d])>>

\* The same as a set.
Upcoming(d) == {NextAccess(d)[i] : i \in DOMAIN NextAccess(d)}

\* The access a writes its field.
Writes(a) == a.op \in {"write", "dec"}

\* C35: the two relay tasks of a connection are never about to access the
\* same field of conn with one of the accesses a write, and pending is
\* accessed only by a task that holds conn.mu.
C35_NoSharedAccess ==
    /\ \A d \in Dirs : \A a \in {x \in Upcoming(d) : x.f = "pending"} : tkMu = d
    /\ \A a \in Upcoming("clientToUpstream"), b \in Upcoming("upstreamToClient") :
           (a.f = b.f /\ a.f # "mu") => ~(Writes(a) \/ Writes(b))

====
